---- MODULE Spec2Model ----
(***************************************************************************)
(* Model of the hardware-output streaming engine of psiexperiment:         *)
(* psi/controller/output.py (BufferedOutput, EpochOutput,                  *)
(* ContinuousOutput, QueuedEpochOutput) on top of the sample ring buffer   *)
(* (SignalBuffer), the waveform source (factory) and the trial queue       *)
(* (FIFOSignalQueue) it pulls from.                                        *)
(*                                                                         *)
(* Samples are small naturals: 0 is silence, the p-th sample of an epoch   *)
(* source is p (1-based), so a skipped, repeated or misplaced sample is    *)
(* visible.  Unwritten (-1) marks a position of the caller's output array  *)
(* that get_samples never assigned.  The p-th sample of a trial of the     *)
(* queue entry with key k is 10*k + p.  Times are counted in sample        *)
(* periods: one second is FS of them, so t0 and the engine time are        *)
(* integers and t*fs is exact.                                             *)
(***************************************************************************)
EXTENDS Integers, Sequences, FiniteSets, TLC

VARIABLES kind, _buffer, active, _offset, source,
          call, hist, chain, armed, quiet,
          queue, auto_decrement, complete_cb, paused, deferred, fired, ts, hw, qlog,
          played, shadow,
          rt, obs, cal, ret,
          io_point, _engines, _master_engine,
          _actions, _action_context, _timers, timers,
          experiment_state, _pause_requested, loop, trace

\* The state of a QueuedEpochOutput beyond that of a BufferedOutput, the
\* engine it talks to, and the record of what the queue was given.
qvars == <<queue, auto_decrement, complete_cb, paused, deferred, fired, ts, hw, qlog>>

\* What the hardware holds for each absolute offset (the last sample it was
\* handed for it), and the channel as it was when pause() was called.
pvars == <<played, shadow>>

\* A get_samples call in progress on the real-time thread (rt), the observers
\* connected to the output (obs), a calibration object (cal) and what the last
\* call of add_setting or get_sens handed back to its caller (ret).
\* The controller plugin (psi/controller/plugin.py): the engines contributed
\* to the IO extension point and what find_engines made of them; the actions,
\* the action context and the timers of delayed events (timers: every timer
\* ever started, _timers: the one the plugin holds for each event name); the
\* experiment state, the pending pause request, the application's queue of
\* deferred calls (loop) and the record of what ran (trace).
cvars == <<io_point, _engines, _master_engine, _actions, _action_context,
           _timers, timers, experiment_state, _pause_requested, loop, trace>>

xvars == <<rt, obs, cal, ret, cvars>>

vars == <<kind, _buffer, active, _offset, source, call, hist, chain, armed, quiet,
          queue, auto_decrement, complete_cb, paused, deferred, fired, ts, hw, qlog,
          played, shadow, rt, obs, cal, ret, cvars>>

\* ---------------------------------------------------------------- bounds
\* Capacity of the ring buffer, in samples.
Cap == 1
\* Largest absolute sample offset the model runs to.
MaxOff == 5
\* Largest number of samples of one pull (larger than Cap: a pull may evict).
MaxN == 3
\* Largest length of an epoch source, in samples.
MaxLen == 3
\* Sample rate: sample periods per second.
FS == 1
\* Largest number of settings added to the queue.
MaxSettings == 2
\* Largest absolute sample offset a queued output runs to.
MaxQOff == 7
\* Largest number of calls of next_trial from outside pop_buffer.
MaxManual == 2
\* Largest number of pauses of one run.
MaxPauses == 1
\* Largest number of toggle_pause calls of one run.
MaxToggles == 3
\* Largest number of activations of a run in which the output is also
\* deactivated.
MaxActs == 2
\* Largest filter delay of a target, in sample periods.
MaxDelay == 1
\* Largest number of callbacks connected to an output.
MaxObservers == 2
\* Largest absolute sample offset of a run that follows the control thread's
\* calls step by step (interleaved with the callback, failing or not).
MaxRace == 3
Unwritten == -1

Min(a, b) == IF a < b THEN a ELSE b
Max(a, b) == IF a > b THEN a ELSE b

\* np.zeros(k)
Zeros(k) == [i \in 1..k |-> 0]

\* out[from-1:to] = d (1-based, inclusive positions from..to)
SetSlice(out, from, to, d) ==
  [i \in 1..Len(out) |-> IF i >= from /\ i <= to THEN d[i - from + 1] ELSE out[i]]

\* ---------------------------------------------------------- SignalBuffer
\* The ring buffer: absolute bounds lb, ub and the samples of [lb, ub).
SignalBuffer == [lb |-> 0, ub |-> 0, data |-> <<>>]

get_samples_lb(b) == b.lb

get_samples_ub(b) == b.ub

\* append that never drops anything from the front.
append_data_keeps_all(b, d) ==
  LET ub2 == b.ub + Len(d)
  IN [lb |-> b.lb, ub |-> ub2,
      data |-> [i \in b.lb..(ub2 - 1) |->
                  IF i < b.ub THEN b.data[i] ELSE d[i - b.ub + 1]]]

\* append: extends ub by len(d); drops the oldest excess over the capacity.
append_data(b, d) ==
  LET ub2 == b.ub + Len(d)
      lb2 == IF ub2 - b.lb > Cap THEN ub2 - Cap ELSE b.lb
  IN [lb |-> lb2, ub |-> ub2,
      data |-> [i \in lb2..(ub2 - 1) |->
                  IF i < b.ub THEN b.data[i] ELSE d[i - b.ub + 1]]]

\* invalidate_from(offset): ub = min(ub, offset), nothing else.
invalidate_samples(b, o) ==
  LET ub2 == Min(b.ub, o)
  IN [lb |-> b.lb, ub |-> ub2, data |-> [i \in b.lb..(ub2 - 1) |-> b.data[i]]]

\* get_range(lo, hi): a copy of [lo, hi).
get_range_samples(b, lo, hi) == [i \in 1..(hi - lo) |-> b.data[lo + i - 1]]

\* get_range that hands back the readable part of a range reaching below lb.
get_range_clamped(b, lo, hi) ==
  IF hi > b.ub \/ hi < b.lb
  THEN [result |-> "RangeError", data |-> <<>>]
  ELSE LET from == Max(lo, b.lb)
       IN [result |-> "ok", data |-> get_range_samples(b, from, hi)]

\* get_range(lo, hi) with its checks: fails with RangeError if lo < lb (data
\* evicted) or hi > ub (not yet generated).
get_range(b, lo, hi) ==
  IF lo < b.lb \/ hi > b.ub
  THEN [result |-> "RangeError", data |-> <<>>]
  ELSE [result |-> "ok", data |-> get_range_samples(b, lo, hi)]

\* ------------------------------------------------------- waveform source
\* No source assigned (Python None).
None == [epoch |-> FALSE, pos |-> -1, len |-> -1]

\* A fresh epoch source of len samples / a fresh continuous source.
EpochSource(len) == [epoch |-> TRUE, pos |-> 0, len |-> len]
ContinuousSource == [epoch |-> FALSE, pos |-> 0, len |-> 0]

\* source.next(k): k samples; an epoch source yields its remaining samples
\* and then zeros.
source_next(src, k) ==
  [i \in 1..k |->
     IF src.epoch
     THEN (IF src.pos + i <= src.len THEN src.pos + i ELSE 0)
     ELSE ((src.pos + i - 1) % 3) + 1]

\* The source after next(k).
source_advance(src, k) ==
  IF src.epoch
  THEN [src EXCEPT !.pos = Min(src.pos + k, src.len)]
  ELSE [src EXCEPT !.pos = (src.pos + k) % 3]

\* source.is_complete()
is_complete(src) == src.epoch /\ src.pos >= src.len

\* ----------------------------------------------------------- trial queue
\* psi.controller.queue.FIFOSignalQueue.  An entry is a setting waiting in
\* the queue: its key, its remaining repeat count (trials), its inter-trial
\* gap (delays) and its trial duration, both in samples.  trial is the
\* instantiation being played.  samples counts what pop_buffer has emitted
\* since t0.  tape is every sample the queue has generated and cursor the
\* play-cursor into it; a pause moves the cursor back, so that what was
\* generated past the pause point is played again after the resume.
NoTime == -1

NoTrial == [key |-> 0, pos |-> 0, duration |-> 0, delays |-> 0]

FIFOSignalQueue ==
  [t0 |-> 0, entries |-> <<>>, nkeys |-> 0, trial |-> NoTrial,
   delay_samples |-> 0, samples |-> 0, uploaded |-> <<>>, notified |-> <<>>,
   tape |-> <<>>, cursor |-> 0, pauseAt |-> NoTime, resumeAt |-> NoTime,
   idle |-> 0]

\* The p-th sample of a trial of the entry with this key.
Sample(key, p) == 10 * key + p

set_t0(q, t0) == [q EXCEPT !.t0 = t0]

\* append(source, trials, delays, duration, metadata)
append(q, trials, delays, duration) ==
  [q EXCEPT !.nkeys = @ + 1,
            !.entries = Append(@, [key |-> q.nkeys + 1, trials |-> trials,
                                   delays |-> delays, duration |-> duration])]

is_empty(q) == q.entries = <<>>

\* FIFO: the oldest entry.
next_key(q) == q.entries[1]

\* The entry loses one repeat and leaves the queue when none is left.
decrement_key(q, key) ==
  LET dec == [i \in 1..Len(q.entries) |->
                IF q.entries[i].key = key
                THEN [q.entries[i] EXCEPT !.trials = @ - 1]
                ELSE q.entries[i]]
      left(e) == e.trials > 0
  IN [q EXCEPT !.entries = SelectSeq(dec, left)]

\* instantiate putting the new record in front of the uploaded log.
instantiate_front(q) ==
  LET e == next_key(q)
      u == [t0 |-> q.t0 + q.samples, key |-> e.key]
  IN [q EXCEPT !.trial = [key |-> e.key, pos |-> 0, duration |-> e.duration,
                          delays |-> e.delays],
               !.uploaded = <<u>> \o @,
               !.notified = Append(@, u)]

\* A new trial instantiation of the next entry: its record goes to the
\* uploaded log and to the connected callbacks (notified).
instantiate(q) ==
  LET e == next_key(q)
      u == [t0 |-> q.t0 + q.samples, key |-> e.key]
  IN [q EXCEPT !.trial = [key |-> e.key, pos |-> 0, duration |-> e.duration,
                          delays |-> e.delays],
               !.uploaded = Append(@, u),
               !.notified = Append(@, u)]

\* complete_trial decrementing the entry whatever the flag says.
complete_trial_always(q, decrement) ==
  decrement_key([q EXCEPT !.trial = NoTrial, !.delay_samples = q.trial.delays],
                q.trial.key)

\* The instantiation being played is over: its gap starts, its entry is
\* decremented.
complete_trial(q, decrement) ==
  LET q1 == [q EXCEPT !.trial = NoTrial, !.delay_samples = q.trial.delays]
  IN IF decrement THEN decrement_key(q1, q.trial.key) ELSE q1

\* The next sample of the instantiation being played.
emit(q, decrement) ==
  LET p == q.trial.pos + 1
      q1 == [q EXCEPT !.trial.pos = p]
  IN [q |-> IF p >= q.trial.duration THEN complete_trial(q1, decrement) ELSE q1,
      s |-> Sample(q.trial.key, p)]

\* One newly generated sample: of the trial being played, else of its gap,
\* else of a new instantiation, else silence (nothing is queued; idle counts
\* these).
generate(q, decrement) ==
  IF q.trial # NoTrial THEN emit(q, decrement)
  ELSE IF q.delay_samples > 0
  THEN [q |-> [q EXCEPT !.delay_samples = @ - 1], s |-> 0]
  ELSE IF is_empty(q) THEN [q |-> [q EXCEPT !.idle = @ + 1], s |-> 0]
  ELSE emit(instantiate(q), decrement)

\* The queue is silent at absolute offset a: a pause holds there.
silent_at(q, a) ==
  /\ q.pauseAt # NoTime
  /\ a >= q.pauseAt
  /\ (q.resumeAt = NoTime \/ a < q.resumeAt)

\* One sample of pop_buffer.
pop_sample(q, decrement) ==
  LET a == q.t0 + q.samples
  IN IF silent_at(q, a)
     THEN [q |-> [q EXCEPT !.samples = @ + 1], s |-> 0]
     ELSE LET q0 == IF q.resumeAt # NoTime /\ a >= q.resumeAt
                    THEN [q EXCEPT !.pauseAt = NoTime, !.resumeAt = NoTime]
                    ELSE q
          IN IF q0.cursor < Len(q0.tape)
             THEN [q |-> [q0 EXCEPT !.cursor = @ + 1, !.samples = @ + 1],
                   s |-> q0.tape[q0.cursor + 1]]
             ELSE LET g == generate(q0, decrement)
                  IN [q |-> [g.q EXCEPT !.tape = Append(@, g.s),
                                        !.cursor = @ + 1, !.samples = @ + 1],
                      s |-> g.s]

RECURSIVE pop_buffer(_, _, _)
\* pop_buffer(samples, decrement): the queue after it and the waveform.
pop_buffer(q, samples, decrement) ==
  IF samples = 0
  THEN [q |-> q, data |-> <<>>]
  ELSE LET r == pop_sample(q, decrement)
           rest == pop_buffer(r.q, samples - 1, decrement)
       IN [q |-> rest.q, data |-> <<r.s>> \o rest.data]

\* next_trial(): the instantiation being played is over without a gap and
\* the next one starts now (nothing happens on an empty queue).
next_trial(q, decrement) ==
  LET q1 == IF q.trial # NoTrial
            THEN [complete_trial(q, decrement) EXCEPT !.delay_samples = 0]
            ELSE [q EXCEPT !.delay_samples = 0]
  IN IF is_empty(q1) THEN q1 ELSE instantiate(q1)

\* pause(t): silence from the sample offset of t on; what was generated for
\* offsets past it is to be played again after the resume.
queue_pause(q, t) ==
  LET a == q.t0 + q.samples
      back == Min(Max(a - t, 0), Min(q.cursor, q.samples))
  IN [q EXCEPT !.pauseAt = t, !.resumeAt = NoTime,
               !.cursor = @ - back, !.samples = @ - back]

\* resume(t): trial output again from the sample offset of t on, from the
\* play-cursor; the silence emitted past it is pulled again.
queue_resume(q, t) ==
  LET a == q.t0 + q.samples
      back == Min(Max(a - t, 0), q.samples)
  IN [q EXCEPT !.resumeAt = t, !.samples = @ - back]

\* ----------------------------------------------------------------- Output
\* Lines 62-63: connect(cb).  Callbacks are numbered in the order they were
\* connected.
connect(o) == [o EXCEPT !.callbacks = @ + 1]

\* notify that passes the record on as it is.
notify_no_delay(o, data) ==
  [o EXCEPT !.received = @ \o [cb \in 1..o.callbacks |-> [cb |-> cb, data |-> data]]]

\* Lines 65-70: a copy of the record with t0 moved by the filter delay goes
\* to every callback, in order.
notify(o, data) ==
  LET d == [data EXCEPT !.t0 = @ + o.filter_delay]
  IN [o EXCEPT !.received = @ \o [cb \in 1..o.callbacks |-> [cb |-> cb, data |-> d]]]

RECURSIVE notify_each(_, _)
\* The queue calls the callback connected to it (the output's notify, lines
\* 258-261) once for each record, in order.
notify_each(o, records) ==
  IF records = <<>> THEN o
  ELSE notify_each(notify(o, Head(records)), Tail(records))

\* -------------------------------------------------------- BufferedOutput
\* The channel as one value: what get_samples reads and writes.
Chan == [kind |-> kind, buffer |-> _buffer, active |-> active,
         offset |-> _offset, source |-> source,
         queue |-> queue, auto_decrement |-> auto_decrement,
         complete_cb |-> complete_cb, paused |-> paused,
         deferred |-> deferred, fired |-> fired, hw |-> hw]

\* activate that leaves the buffer alone.
activate_no_truncate(ch, o) == [ch EXCEPT !.active = TRUE, !.offset = o]

activate(ch, o) ==
  [ch EXCEPT !.active = TRUE, !.offset = o,
             !.buffer = invalidate_samples(ch.buffer, o)]

\* deactivate that leaves the source in place.
deactivate_keeps_source(ch, o) ==
  [ch EXCEPT !.active = FALSE,
             !.buffer = invalidate_samples(ch.buffer, o)]

\* deactivate that leaves the active flag set.
deactivate_stays_active(ch, o) ==
  [ch EXCEPT !.source = None,
             !.buffer = invalidate_samples(ch.buffer, o)]

deactivate(ch, o) ==
  [ch EXCEPT !.active = FALSE, !.source = None,
             !.buffer = invalidate_samples(ch.buffer, o)]

\* What get_next_samples hands back: the channel after the call, the
\* waveform, whether it raised, how many samples it asked of the source and
\* how many zeros it put before them; complete: the source reported
\* completion during the call.
Generated(ch, data, raised, draws, zp) ==
  [ch |-> ch, data |-> data, raised |-> raised, draws |-> draws, zp |-> zp,
   complete |-> FALSE]

EpochOutput_get_next_samples(ch, samples) ==
  IF ch.active
  THEN LET buffered_ub == get_samples_ub(ch.buffer)
           zero_padding == Min(Max(ch.offset - buffered_ub, 0), samples)
           waveform_samples == samples - zero_padding
       IN IF ch.source = None
          THEN \* self.source.next / self.source.is_complete on None
               Generated(ch, <<>>, TRUE, 0, zero_padding)
          ELSE LET w == Zeros(zero_padding)
                          \o (IF waveform_samples > 0
                              THEN source_next(ch.source, waveform_samples)
                              ELSE <<>>)
                   src2 == IF waveform_samples > 0
                           THEN source_advance(ch.source, waveform_samples)
                           ELSE ch.source
                   ch2 == [ch EXCEPT !.source = src2]
               IN [Generated(IF is_complete(src2)
                             THEN deactivate(ch2, get_samples_ub(ch2.buffer))
                             ELSE ch2,
                             w, FALSE, waveform_samples, zero_padding)
                   EXCEPT !.complete = is_complete(src2)]
  ELSE Generated(ch, Zeros(samples), FALSE, 0, 0)

\* get_next_samples consulting the source whether or not the output is
\* active.
ContinuousOutput_get_next_samples_always(ch, samples) ==
  IF ch.source = None
  THEN Generated(ch, Zeros(samples), FALSE, 0, 0)
  ELSE Generated([ch EXCEPT !.source = source_advance(ch.source, samples)],
                 source_next(ch.source, samples), FALSE, samples, 0)

\* Lines 315-321: source.next(samples) while active (AttributeError on a
\* source that was never set), zeros otherwise; active is not assigned.
ContinuousOutput_get_next_samples(ch, samples) ==
  IF ch.active
  THEN IF ch.source = None
       THEN Generated(ch, <<>>, TRUE, 0, 0)
       ELSE Generated([ch EXCEPT !.source = source_advance(ch.source, samples)],
                      source_next(ch.source, samples), FALSE, samples, 0)
  ELSE Generated(ch, Zeros(samples), FALSE, 0, 0)

\* get_next_samples scheduling the callback whether or not the queue is
\* empty.
QueuedEpochOutput_get_next_samples_partial(ch, samples) ==
  IF ch.active
  THEN LET r == pop_buffer(ch.queue, samples, ch.auto_decrement)
           ch1 == [ch EXCEPT !.queue = r.q]
       IN IF ch.complete_cb
          THEN Generated([ch1 EXCEPT !.deferred = Append(@, "complete_cb"),
                                     !.active = FALSE],
                         r.data, FALSE, samples, 0)
          ELSE Generated(ch1, r.data, FALSE, samples, 0)
  ELSE Generated(ch, Zeros(samples), FALSE, 0, 0)

\* get_next_samples calling the callback itself.
QueuedEpochOutput_get_next_samples_inline(ch, samples) ==
  IF ch.active
  THEN LET r == pop_buffer(ch.queue, samples, ch.auto_decrement)
           ch1 == [ch EXCEPT !.queue = r.q]
       IN IF is_empty(r.q) /\ ch.complete_cb
          THEN Generated([ch1 EXCEPT !.fired = @ + 1, !.active = FALSE],
                         r.data, FALSE, samples, 0)
          ELSE Generated(ch1, r.data, FALSE, samples, 0)
  ELSE Generated(ch, Zeros(samples), FALSE, 0, 0)

\* Lines 263-273.  complete_cb is TRUE when a callback is registered (not
\* None); deferred_call(complete_cb) puts it on the application's queue of
\* deferred calls.
QueuedEpochOutput_get_next_samples(ch, samples) ==
  IF ch.active
  THEN LET r == pop_buffer(ch.queue, samples, ch.auto_decrement)
           ch1 == [ch EXCEPT !.queue = r.q]
       IN IF is_empty(r.q) /\ ch.complete_cb
          THEN Generated([ch1 EXCEPT !.deferred = Append(@, "complete_cb"),
                                     !.active = FALSE],
                         r.data, FALSE, samples, 0)
          ELSE Generated(ch1, r.data, FALSE, samples, 0)
  ELSE Generated(ch, Zeros(samples), FALSE, 0, 0)

get_next_samples(ch, samples) ==
  IF ch.kind = "EpochOutput"
  THEN EpochOutput_get_next_samples(ch, samples)
  ELSE IF ch.kind = "QueuedEpochOutput"
  THEN QueuedEpochOutput_get_next_samples(ch, samples)
  ELSE ContinuousOutput_get_next_samples(ch, samples)

\* activate that leaves the queue's t0 alone.
QueuedEpochOutput_activate_no_t0(ch, o) == activate(ch, o)

\* Lines 300-303: activate, then queue.set_t0(offset/fs).
QueuedEpochOutput_activate(ch, o) ==
  [activate(ch, o) EXCEPT !.queue = set_t0(@, o)]

\* add_setting that drops the inter-trial gap.
add_setting_no_iti(ch, averages, iti_duration, duration) ==
  [ch EXCEPT !.queue = append(@, averages, 0, duration)]

\* add_setting handing the queue the gap as the repeat count and the repeat
\* count as the gap.
add_setting_swapped(ch, averages, iti_duration, duration) ==
  [ch EXCEPT !.queue = append(@, iti_duration, averages, duration)]

\* Lines 275-298: queue.append(factory, averages, iti_duration, duration,
\* setting).
add_setting(ch, averages, iti_duration, duration) ==
  [ch EXCEPT !.queue = append(@, averages, iti_duration, duration)]

\* context.pop(key) on a setting: the value and the setting without the key.
\* A setting is the dict the caller passes: whether it holds the output's
\* averages and iti_duration keys, their values and the token's duration.
pop_averages(context) == [context EXCEPT !.has_averages = FALSE]

pop_iti_duration(context) == [context EXCEPT !.has_iti_duration = FALSE]

\* add_setting popping the keys from the caller's setting itself.
QueuedEpochOutput_add_setting_in_place(ch, setting, averages, iti_duration, factory_ok) ==
  LET context1 == IF averages = <<>> THEN pop_averages(setting) ELSE setting
      context2 == IF iti_duration = <<>> THEN pop_iti_duration(context1) ELSE context1
      a == IF averages = <<>> THEN setting.averages ELSE averages[1]
      i == IF iti_duration = <<>> THEN setting.iti_duration ELSE iti_duration[1]
  IN IF averages = <<>> /\ ~setting.has_averages
     THEN [ch |-> ch, setting |-> setting, result |-> "KeyError"]
     ELSE IF iti_duration = <<>> /\ ~context1.has_iti_duration
     THEN [ch |-> ch, setting |-> context1, result |-> "KeyError"]
     ELSE IF ~factory_ok
     THEN [ch |-> ch, setting |-> context2, result |-> "FactoryError"]
     ELSE [ch |-> add_setting(ch, a, i, setting.duration),
           setting |-> context2, result |-> "ok"]

\* Lines 275-298, the whole method: averages and iti_duration are <<>> for
\* None and <<v>> for a value; context is a copy of the setting, the keys
\* are popped from the copy (KeyError if one is missing), initialize_factory
\* builds the factory (it raises when factory_ok is false) and only then the
\* queue is appended to.  The caller's setting after the call is handed back.
QueuedEpochOutput_add_setting(ch, setting, averages, iti_duration, factory_ok) ==
  LET context == setting
      context1 == IF averages = <<>> THEN pop_averages(context) ELSE context
      a == IF averages = <<>> THEN context.averages ELSE averages[1]
      i == IF iti_duration = <<>> THEN context1.iti_duration ELSE iti_duration[1]
  IN IF averages = <<>> /\ ~context.has_averages
     THEN [ch |-> ch, setting |-> setting, result |-> "KeyError"]
     ELSE IF iti_duration = <<>> /\ ~context1.has_iti_duration
     THEN [ch |-> ch, setting |-> setting, result |-> "KeyError"]
     ELSE IF ~factory_ok
     THEN [ch |-> ch, setting |-> setting, result |-> "FactoryError"]
     ELSE [ch |-> add_setting(ch, a, i, setting.duration),
           setting |-> setting, result |-> "ok"]

\* pause invalidating the buffer from the engine's current time on.
pause_from_now(ch, t) ==
  LET pause_time == t + FS
      offset == t
  IN [ch EXCEPT !.paused = TRUE,
                !.queue = queue_pause(@, pause_time),
                !.buffer = invalidate_samples(@, offset),
                !.hw = offset]

\* Lines 223-232, at engine time t (engine.get_ts()).
pause(ch, t) ==
  LET pause_time == t + FS
      offset == pause_time + FS
  IN [ch EXCEPT !.paused = TRUE,
                !.queue = queue_pause(@, pause_time),
                !.buffer = invalidate_samples(@, offset),
                !.hw = offset]

\* Lines 234-243, at engine time t.
resume(ch, t) ==
  LET resume_time == t + FS
      offset == resume_time + FS
  IN [ch EXCEPT !.buffer = invalidate_samples(@, offset),
                !.queue = queue_resume(@, resume_time),
                !.hw = offset,
                !.paused = FALSE]

\* toggle_pause dispatching the wrong way round.
toggle_pause_inverted(ch, t) ==
  IF ch.paused
  THEN [ch |-> pause(ch, t), dispatched |-> "pause"]
  ELSE [ch |-> resume(ch, t), dispatched |-> "resume"]

\* Lines 245-249: the channel after the call and the method it called.
toggle_pause(ch, t) ==
  IF ch.paused
  THEN [ch |-> resume(ch, t), dispatched |-> "resume"]
  ELSE [ch |-> pause(ch, t), dispatched |-> "pause"]

\* What a get_samples call leaves: the channel, the caller's out array, how
\* it ended, the branch taken, the number of samples taken from the buffer,
\* zeroed before activation and generated, the number asked of the source,
\* the pull offset of the first newly produced sample (genAt) and of the
\* first sample drawn from the source (drawAt).
Pulled(ch, out, result, path, nbuf, nzero, ngen, draws, genAt, drawAt, complete) ==
  [ch |-> ch, out |-> out, result |-> result, path |-> path, nbuf |-> nbuf,
   nzero |-> nzero, ngen |-> ngen, draws |-> draws, genAt |-> genAt,
   drawAt |-> drawAt, complete |-> complete]

\* pre_activation without the min(): zeroes up to the activation offset even
\* past the end of the request.
pre_activation_nomin(ch, offset, samples) ==
  IF (samples > 0) /\ (offset < ch.offset)
  THEN ch.offset - offset
  ELSE 0

\* Lines 149-150: the number of samples of the request that lie before the
\* activation offset (zeroed without asking the source).
pre_activation(ch, offset, samples) ==
  IF (samples > 0) /\ (offset < ch.offset)
  THEN Min(ch.offset - offset, samples)
  ELSE 0

\* Extract with the gap test off by one (lb > buffered_ub + 1).
Extract_gap(ch, offset, samples) ==
  LET lb == offset
      ub == offset + samples
      buffered_lb == get_samples_lb(ch.buffer)
      buffered_ub == get_samples_ub(ch.buffer)
  IN IF lb > buffered_ub + 1
     THEN [path |-> "raise", b |-> <<>>]
     ELSE IF lb >= buffered_ub
     THEN [path |-> "new", b |-> <<>>]
     ELSE IF lb >= buffered_lb /\ ub <= buffered_ub
     THEN [path |-> "cached", b |-> get_range_samples(ch.buffer, lb, ub)]
     ELSE IF lb >= buffered_lb /\ ub > buffered_ub
     THEN [path |-> "partial", b |-> get_range_samples(ch.buffer, lb, buffered_ub)]
     ELSE [path |-> "fallthrough", b |-> <<>>]

\* Extract serving one cached sample too few on a partial overlap.
Extract_short(ch, offset, samples) ==
  LET lb == offset
      ub == offset + samples
      buffered_lb == get_samples_lb(ch.buffer)
      buffered_ub == get_samples_ub(ch.buffer)
  IN IF lb > buffered_ub
     THEN [path |-> "raise", b |-> <<>>]
     ELSE IF lb = buffered_ub
     THEN [path |-> "new", b |-> <<>>]
     ELSE IF lb >= buffered_lb /\ ub <= buffered_ub
     THEN [path |-> "cached", b |-> get_range_samples(ch.buffer, lb, ub)]
     ELSE IF lb >= buffered_lb /\ ub > buffered_ub
     THEN [path |-> "partial", b |-> get_range_samples(ch.buffer, lb + 1, buffered_ub)]
     ELSE [path |-> "fallthrough", b |-> <<>>]

\* Lines 129-146: the part of the request served from the buffer.
\* path, the samples copied (b) and whether the call raises.
Extract(ch, offset, samples) ==
  LET lb == offset
      ub == offset + samples
      buffered_lb == get_samples_lb(ch.buffer)
      buffered_ub == get_samples_ub(ch.buffer)
  IN IF lb > buffered_ub
     THEN [path |-> "raise", b |-> <<>>]
     ELSE IF lb = buffered_ub
     THEN [path |-> "new", b |-> <<>>]
     ELSE IF lb >= buffered_lb /\ ub <= buffered_ub
     THEN [path |-> "cached", b |-> get_range_samples(ch.buffer, lb, ub)]
     ELSE IF lb >= buffered_lb /\ ub > buffered_ub
     THEN [path |-> "partial", b |-> get_range_samples(ch.buffer, lb, buffered_ub)]
     ELSE [path |-> "fallthrough", b |-> <<>>]

get_samples(ch, offset, samples) ==
  LET n == samples
      out0 == [i \in 1..n |-> Unwritten]
      e == Extract(ch, offset, samples)
  IN IF e.path = "raise"
     THEN Pulled(ch, out0, "SystemError", e.path, 0, 0, 0, 0, -1, -1, FALSE)
     ELSE
     LET s0 == Len(e.b)
         out1 == SetSlice(out0, 1, s0, e.b)
         samples1 == samples - s0
         offset1 == offset + s0
         \* Don't generate new samples if occuring before activation.
         s == pre_activation(ch, offset1, samples1)
         pre == s > 0
         ch2 == IF pre
                THEN [ch EXCEPT !.buffer = append_data(ch.buffer, Zeros(s))]
                ELSE ch
         out2 == IF pre
                 THEN SetSlice(out1, n - samples1 + 1, n - samples1 + s, Zeros(s))
                 ELSE out1
         samples2 == samples1 - s
         offset2 == offset1 + s
     IN IF samples2 > 0
        THEN LET g == get_next_samples(ch2, samples2)
             IN IF g.raised
                THEN Pulled(g.ch, out2, "AttributeError", e.path, s0, s, 0, 0,
                            offset1, -1, FALSE)
                ELSE Pulled([g.ch EXCEPT !.buffer = append_data(g.ch.buffer, g.data)],
                            SetSlice(out2, n - samples2 + 1, n, g.data),
                            "ok", e.path, s0, s, Len(g.data), g.draws, offset1,
                            IF g.draws > 0 THEN offset2 + g.zp ELSE -1,
                            g.complete)
        ELSE Pulled(ch2, out2, "ok", e.path, s0, s, 0, 0,
                    IF s > 0 THEN offset1 ELSE -1, -1, FALSE)

\* ------------------------------------------------------------ the record
\* of the last call and of the samples handed to the hardware
NoCall == [op |-> "init", offset |-> 0, samples |-> 0, out |-> <<>>,
           result |-> "ok", path |-> "none", nbuf |-> 0, nzero |-> 0,
           ngen |-> 0, draws |-> 0, genAt |-> -1, drawAt |-> -1]

Control(op, o) == [NoCall EXCEPT !.op = op, !.offset = o]

Never == Unwritten

NoChain == [on |-> FALSE, s0 |-> None, start |-> 0, last |-> 0, end |-> 0,
            acc |-> <<>>]

\* What the queue was given and did so far: the settings added (key and
\* repeat count), the number of times it went from holding an entry to
\* empty, and how often next_trial was called from outside pop_buffer.
\* and pause, the number of samples asked of pop_buffer and the number of
\* activate calls.
NoLog == [loaded |-> <<>>, drains |-> 0, manual |-> 0, pauses |-> 0, popped |-> 0,
          acts |-> 0]

\* No get_samples call is in progress.
NoFlight == [pc |-> "idle"]

\* No observer is connected (Output.callbacks is empty).
NoObservers == [filter_delay |-> 0, callbacks |-> 0, received |-> <<>>]

\* No calibration object.
NoCal == [variant |-> "none", frequency |-> <<>>, sensitivity |-> <<>>,
          fixed_gain |-> 0]

\* No master engine, no timer.
Nobody == [name |-> "none"]

\* The controller plugin before start(): nothing contributed, nothing found,
\* the experiment initialized.
NoController ==
  /\ io_point = <<>>
  /\ _engines = <<>>
  /\ _master_engine = Nobody
  /\ _actions = <<>>
  /\ _action_context = <<>>
  /\ _timers = <<>>
  /\ timers = <<>>
  /\ experiment_state = "initialized"
  /\ _pause_requested = FALSE
  /\ loop = <<>>
  /\ trace = <<>>

\* Nothing was handed back yet; flags: the paused flag after each
\* toggle_pause call so far.
NoRet == [op |-> "none", result |-> "ok", flags |-> <<>>]

NoExtras ==
  /\ rt = NoFlight
  /\ obs = NoObservers
  /\ cal = NoCal
  /\ NoController
  /\ ret = NoRet

\* A BufferedOutput has no queue: the queue attributes keep their defaults.
NoQueue ==
  /\ queue = FIFOSignalQueue
  /\ auto_decrement = FALSE
  /\ complete_cb = FALSE
  /\ paused = FALSE
  /\ deferred = <<>>
  /\ fired = 0
  /\ ts = 0
  /\ hw = NoTime
  /\ qlog = NoLog
  /\ played = [i \in 0..(MaxQOff - 1) |-> Never]
  /\ shadow = None

\* ---------------------------------------------------------------- state
Init ==
  /\ kind \in {"EpochOutput", "ContinuousOutput"}
  /\ _buffer = SignalBuffer
  /\ active = FALSE
  /\ _offset = 0
  /\ source = None
  /\ call = NoCall
  /\ hist = [i \in 0..(MaxOff - 1) |-> Never]
  /\ chain = NoChain
  /\ armed = FALSE
  /\ quiet = FALSE
  /\ NoQueue
  /\ NoExtras

\* output.source = factory : a fresh source for the next activation
SetSource ==
  /\ \E s \in (IF kind = "EpochOutput"
               THEN {EpochSource(l) : l \in 1..MaxLen}
               ELSE {ContinuousSource}) :
       source' = s
  /\ call' = Control("source", 0)
  /\ chain' = NoChain
  /\ UNCHANGED <<kind, _buffer, active, _offset, hist, armed, quiet>>
  /\ UNCHANGED <<qvars, pvars, xvars>>

Activate ==
  \E o \in 0..MaxOff :
    LET c == activate(Chan, o)
    IN /\ active' = c.active
       /\ _offset' = c.offset
       /\ _buffer' = c.buffer
       /\ source' = c.source
       /\ call' = Control("activate", o)
       /\ chain' = NoChain
       /\ armed' = TRUE
       /\ quiet' = FALSE
       /\ UNCHANGED <<kind, hist>>
       /\ UNCHANGED <<qvars, pvars, xvars>>

Deactivate ==
  \E o \in 0..MaxOff :
    LET c == deactivate(Chan, o)
    IN /\ active' = c.active
       /\ _offset' = c.offset
       /\ _buffer' = c.buffer
       /\ source' = c.source
       /\ call' = Control("deactivate", o)
       /\ chain' = NoChain
       /\ quiet' = TRUE
       /\ UNCHANGED <<kind, hist, armed>>
       /\ UNCHANGED <<qvars, pvars, xvars>>

\* The concatenation of the newly covered parts of a gap-free run of pulls.
ChainAfter(o, n, r) ==
  IF r.result # "ok"
  THEN NoChain
  ELSE IF chain.on /\ o >= chain.last /\ o <= chain.end
  THEN [chain EXCEPT !.last = o,
                     !.end = Max(chain.end, o + n),
                     !.acc = chain.acc \o
                             (IF o + n > chain.end
                              THEN SubSeq(r.out, chain.end - o + 1, n)
                              ELSE <<>>)]
  ELSE IF o = get_samples_ub(_buffer)
  THEN [on |-> TRUE, s0 |-> Chan, start |-> o, last |-> o, end |-> o + n,
        acc |-> r.out]
  ELSE NoChain

\* One hardware pull: get_samples(o, n, out).
Pull(o, n, r) ==
  /\ o + n <= MaxOff
  /\ get_samples_ub(r.ch.buffer) <= MaxOff
  /\ active' = r.ch.active
  /\ _offset' = r.ch.offset
  /\ _buffer' = r.ch.buffer
  /\ source' = r.ch.source
  /\ call' = [op |-> "get_samples", offset |-> o, samples |-> n,
              out |-> r.out, result |-> r.result, path |-> r.path,
              nbuf |-> r.nbuf, nzero |-> r.nzero, ngen |-> r.ngen,
              draws |-> r.draws, genAt |-> r.genAt, drawAt |-> r.drawAt]
  /\ armed' = (armed /\ r.draws = 0)
  /\ quiet' = (quiet \/ r.complete)
  /\ UNCHANGED kind

GetSamples ==
  \E o \in 0..MaxOff, n \in 1..MaxN :
    /\ Pull(o, n, get_samples(Chan, o, n))
    /\ UNCHANGED <<hist, chain>>
    /\ UNCHANGED <<qvars, pvars, xvars>>

Next == SetSource \/ Activate \/ Deactivate \/ GetSamples

Spec == Init /\ [][Next]_vars

\* The latest sample written to the caller's out for each absolute offset
\* the buffer still covers after the call (Never elsewhere).
HistAfter(o, n, r) ==
  [i \in 0..(MaxOff - 1) |->
     IF i < get_samples_lb(r.ch.buffer) \/ i >= get_samples_ub(r.ch.buffer)
     THEN Never
     ELSE IF i >= o /\ i < o + n /\ r.out[i - o + 1] # Unwritten
     THEN r.out[i - o + 1]
     ELSE hist[i]]

\* The same pulls, with the record of what the hardware was handed for each
\* absolute offset.
GetSamplesHist ==
  \E o \in 0..MaxOff, n \in 1..MaxN :
    LET r == get_samples(Chan, o, n)
    IN /\ Pull(o, n, r)
       /\ hist' = HistAfter(o, n, r)
       /\ UNCHANGED chain
       /\ UNCHANGED <<qvars, pvars, xvars>>

NextHist == SetSource \/ Activate \/ Deactivate \/ GetSamplesHist

SpecHist == Init /\ [][NextHist]_vars

\* The same pulls, with the record of the current gap-free run of pulls: the
\* channel it started from and the newly covered samples so far.
GetSamplesChain ==
  \E o \in 0..MaxOff, n \in 1..MaxN :
    LET r == get_samples(Chan, o, n)
    IN /\ Pull(o, n, r)
       /\ chain' = ChainAfter(o, n, r)
       /\ UNCHANGED hist
       /\ UNCHANGED <<qvars, pvars, xvars>>

NextChain == SetSource \/ Activate \/ Deactivate \/ GetSamplesChain

SpecChain == Init /\ [][NextChain]_vars

\* ------------------------------------------------- the buffer on its own
\* The ring buffer driven directly: append, invalidate_from and get_range
\* with any arguments.  hist keeps the sample last appended at each absolute
\* offset.
Waveforms == UNION {[1..k -> 1..2] : k \in 1..MaxN}

BufAppend ==
  \E d \in Waveforms :
    /\ get_samples_ub(_buffer) + Len(d) <= MaxOff
    /\ _buffer' = append_data(_buffer, d)
    /\ hist' = [i \in 0..(MaxOff - 1) |->
                  IF i >= get_samples_ub(_buffer)
                     /\ i < get_samples_ub(_buffer) + Len(d)
                  THEN d[i - get_samples_ub(_buffer) + 1]
                  ELSE hist[i]]
    /\ call' = [Control("append_data", get_samples_ub(_buffer))
                EXCEPT !.samples = Len(d)]
    /\ UNCHANGED <<kind, active, _offset, source, chain, armed, quiet>>
    /\ UNCHANGED <<qvars, pvars, xvars>>

BufInvalidate ==
  \E o \in 0..(MaxOff + 1) :
    /\ _buffer' = invalidate_samples(_buffer, o)
    /\ call' = Control("invalidate_samples", o)
    /\ UNCHANGED <<kind, active, _offset, source, hist, chain, armed, quiet>>
    /\ UNCHANGED <<qvars, pvars, xvars>>

BufGetRange ==
  \E lo \in 0..MaxOff, hi \in 0..(MaxOff + 1) :
    LET r == get_range(_buffer, lo, hi)
    IN /\ lo <= hi
       /\ call' = [Control("get_range", lo) EXCEPT !.samples = hi - lo]
       /\ ret' = [op |-> "get_range", result |-> r.result, flags |-> <<>>,
                  data |-> r.data]
       /\ UNCHANGED <<kind, _buffer, active, _offset, source, hist, chain, armed, quiet>>
       /\ UNCHANGED <<qvars, pvars, rt, obs, cal, cvars>>

NextBuffer == BufAppend \/ BufInvalidate \/ BufGetRange

InitBuffer == Init /\ kind = "EpochOutput"

SpecBuffer == InitBuffer /\ [][NextBuffer]_vars

\* ------------------------------------------------- QueuedEpochOutput
\* A QueuedEpochOutput with an empty FIFO queue; auto_decrement and the
\* completion callback are set when the output is declared.
InitQueue ==
  /\ kind = "QueuedEpochOutput"
  /\ _buffer = SignalBuffer
  /\ active = FALSE
  /\ _offset = 0
  /\ source = None
  /\ call = NoCall
  /\ hist = [i \in 0..(MaxOff - 1) |-> Never]
  /\ chain = NoChain
  /\ armed = FALSE
  /\ quiet = FALSE
  /\ queue = FIFOSignalQueue
  /\ auto_decrement \in BOOLEAN
  /\ complete_cb \in BOOLEAN
  /\ paused = FALSE
  /\ deferred = <<>>
  /\ fired = 0
  /\ ts = 0
  /\ hw = NoTime
  /\ qlog = NoLog
  /\ played = [i \in 0..(MaxQOff - 1) |-> Never]
  /\ shadow = None
  /\ NoExtras

\* The queue's log after a step that leaves the queue q2.
LogAfter(q2) ==
  [qlog EXCEPT !.drains = IF ~is_empty(queue) /\ is_empty(q2) THEN @ + 1 ELSE @]

\* The settings an experiment adds: averages, inter-trial gap and trial
\* duration (both in samples).
Settings ==
  { [averages |-> 2, iti_duration |-> 1, duration |-> 1],
    [averages |-> 1, iti_duration |-> 0, duration |-> 2] }

\* output.add_setting(setting, averages, iti_duration)
AddSetting ==
  /\ queue.nkeys < MaxSettings
  /\ \E x \in Settings :
       /\ queue' = add_setting(Chan, x.averages, x.iti_duration, x.duration).queue
       /\ qlog' = [qlog EXCEPT !.loaded =
                     Append(@, [key |-> queue.nkeys + 1, trials |-> x.averages,
                                iti_duration |-> x.iti_duration,
                                duration |-> x.duration])]
  /\ call' = Control("add_setting", 0)
  /\ UNCHANGED <<kind, _buffer, active, _offset, source, hist, chain, armed, quiet>>
  /\ UNCHANGED <<auto_decrement, complete_cb, paused, deferred, fired, ts, hw>>
  /\ UNCHANGED <<pvars, xvars>>

\* The engine activates an output that is not active, at the offset it
\* pulls next or one sample later.
QActivate ==
  \E o \in get_samples_ub(_buffer)..(get_samples_ub(_buffer) + 1) :
    LET c == QueuedEpochOutput_activate(Chan, o)
    IN /\ ~active
       /\ o <= MaxQOff
       /\ active' = c.active
       /\ _offset' = c.offset
       /\ _buffer' = c.buffer
       /\ queue' = c.queue
       /\ qlog' = [qlog EXCEPT !.acts = @ + 1]
       /\ call' = Control("activate", o)
       /\ UNCHANGED <<kind, source, hist, chain, armed, quiet>>
       /\ UNCHANGED <<auto_decrement, complete_cb, paused, deferred, fired, ts, hw>>
       /\ UNCHANGED <<pvars, xvars>>

\* One hardware pull of a queued output.
QPull(o, n, r) ==
  /\ active' = r.ch.active
  /\ _offset' = r.ch.offset
  /\ _buffer' = r.ch.buffer
  /\ call' = [op |-> "get_samples", offset |-> o, samples |-> n,
              out |-> r.out, result |-> r.result, path |-> r.path,
              nbuf |-> r.nbuf, nzero |-> r.nzero, ngen |-> r.ngen,
              draws |-> r.draws, genAt |-> r.genAt, drawAt |-> r.drawAt]
  /\ queue' = r.ch.queue
  /\ deferred' = r.ch.deferred
  /\ fired' = r.ch.fired
  /\ qlog' = [LogAfter(r.ch.queue) EXCEPT !.popped = @ + r.draws]
  /\ UNCHANGED <<kind, source, hist, chain, armed, quiet>>
  /\ UNCHANGED <<auto_decrement, complete_cb, paused, ts, hw>>

\* The hardware pulls the block after the last one it was handed.
QGetSamples ==
  \E o \in 0..MaxQOff, n \in 1..MaxN :
    /\ o = get_samples_ub(_buffer)
    /\ o + n <= MaxQOff
    /\ QPull(o, n, get_samples(Chan, o, n))
    /\ UNCHANGED <<pvars, xvars>>

\* queue.next_trial() called from outside pop_buffer, while no pause is
\* pending and nothing the queue generated is waiting to be played again.
NextTrial ==
  /\ ~is_empty(queue)
  /\ queue.cursor = Len(queue.tape)
  /\ queue.pauseAt = NoTime
  /\ qlog.manual < MaxManual
  /\ queue' = next_trial(queue, TRUE)
  /\ qlog' = [LogAfter(next_trial(queue, TRUE)) EXCEPT !.manual = @ + 1]
  /\ call' = Control("next_trial", 0)
  /\ UNCHANGED <<kind, _buffer, active, _offset, source, hist, chain, armed, quiet>>
  /\ UNCHANGED <<auto_decrement, complete_cb, paused, deferred, fired, ts, hw>>
  /\ UNCHANGED <<pvars, xvars>>

\* The application's event loop runs the oldest deferred call.
RunDeferred ==
  /\ deferred # <<>>
  /\ deferred' = Tail(deferred)
  /\ fired' = fired + 1
  /\ call' = Control("deferred", 0)
  /\ UNCHANGED <<kind, _buffer, active, _offset, source, hist, chain, armed, quiet>>
  /\ UNCHANGED <<queue, auto_decrement, complete_cb, paused, ts, hw, qlog>>
  /\ UNCHANGED <<pvars, xvars>>

NextQueue == AddSetting \/ QActivate \/ QGetSamples \/ RunDeferred

SpecQueue == InitQueue /\ [][NextQueue]_vars

\* ------------------------------------------------- pause and resume
\* The same pulls, with the record of what the hardware holds.
QGetSamplesPlayed ==
  \E o \in 0..MaxQOff, n \in 1..MaxN :
    LET r == get_samples(Chan, o, n)
    IN /\ o = get_samples_ub(_buffer)
       /\ o + n <= MaxOff
       /\ QPull(o, n, r)
       /\ played' = [i \in 0..(MaxQOff - 1) |->
                       IF i >= o /\ i < o + n THEN r.out[i - o + 1] ELSE played[i]]
       /\ UNCHANGED <<shadow, xvars>>

\* The engine's clock advances by one sample period; the hardware has been
\* handed what it plays.
Tick ==
  /\ ts < get_samples_ub(_buffer)
  /\ ts' = ts + 1
  /\ call' = Control("tick", 0)
  /\ UNCHANGED <<kind, _buffer, active, _offset, source, hist, chain, armed, quiet>>
  /\ UNCHANGED <<queue, auto_decrement, complete_cb, paused, deferred, fired, hw, qlog>>
  /\ UNCHANGED <<pvars, xvars>>

\* output.pause() at engine time ts; the call records the sample offset of
\* the pause time handed to the queue.
Pause ==
  LET c == pause(Chan, ts)
  IN /\ ~paused
     /\ active
     /\ qlog.pauses < MaxPauses
     /\ paused' = c.paused
     /\ queue' = c.queue
     /\ _buffer' = c.buffer
     /\ hw' = c.hw
     /\ qlog' = [qlog EXCEPT !.pauses = @ + 1]
     /\ shadow' = Chan
     /\ call' = Control("pause", ts + FS)
     /\ UNCHANGED <<kind, active, _offset, source, hist, chain, armed, quiet>>
     /\ UNCHANGED <<auto_decrement, complete_cb, deferred, fired, ts, played>>
     /\ UNCHANGED xvars

\* output.resume() at engine time ts.
Resume ==
  LET c == resume(Chan, ts)
  IN /\ paused
     /\ paused' = c.paused
     /\ queue' = c.queue
     /\ _buffer' = c.buffer
     /\ hw' = c.hw
     /\ call' = Control("resume", ts + FS)
     /\ UNCHANGED <<kind, active, _offset, source, hist, chain, armed, quiet>>
     /\ UNCHANGED <<auto_decrement, complete_cb, deferred, fired, ts, qlog>>
     /\ UNCHANGED <<pvars, xvars>>

NextPause ==
  AddSetting \/ QActivate \/ QGetSamplesPlayed \/ Tick \/ Pause \/ Resume

\* An output with auto-decrement and without a completion callback.
InitPause == InitQueue /\ auto_decrement = TRUE /\ complete_cb = FALSE

SpecPause == InitPause /\ [][NextPause]_vars

\* A run up to and past a pause that is not resumed.
NextHold == AddSetting \/ QActivate \/ QGetSamplesPlayed \/ Tick \/ Pause

SpecHold == InitPause /\ [][NextHold]_vars

\* output.toggle_pause() of an active output at engine time ts; the call
\* records the method it dispatched to.
TogglePause ==
  LET r == toggle_pause(Chan, ts)
      c == r.ch
  IN /\ Len(ret.flags) < MaxToggles
     /\ active
     /\ paused' = c.paused
     /\ queue' = c.queue
     /\ _buffer' = c.buffer
     /\ hw' = c.hw
     /\ qlog' = [qlog EXCEPT !.pauses = IF r.dispatched = "pause" THEN @ + 1 ELSE @]
     /\ shadow' = Chan
     /\ call' = [Control("toggle_pause", ts + FS) EXCEPT !.path = r.dispatched]
     /\ ret' = [op |-> "toggle_pause", result |-> "ok",
                flags |-> Append(ret.flags, c.paused)]
     /\ UNCHANGED <<kind, active, _offset, source, hist, chain, armed, quiet>>
     /\ UNCHANGED <<auto_decrement, complete_cb, deferred, fired, ts, played>>
     /\ UNCHANGED <<rt, obs, cal, cvars>>

NextToggle == AddSetting \/ QActivate \/ QGetSamplesPlayed \/ TogglePause

SpecToggle == InitPause /\ [][NextToggle]_vars

\* ------------------------------------------------- activate, deactivate
\* An output with BufferedOutput's activate (an EpochOutput) and one with
\* QueuedEpochOutput's, activated and deactivated at any offset between
\* sequential pulls.
InitAct ==
  /\ kind \in {"EpochOutput", "QueuedEpochOutput"}
  /\ _buffer = SignalBuffer
  /\ active = FALSE
  /\ _offset = 0
  /\ source = None
  /\ call = NoCall
  /\ hist = [i \in 0..(MaxOff - 1) |-> Never]
  /\ chain = NoChain
  /\ armed = FALSE
  /\ quiet = FALSE
  /\ NoQueue
  /\ NoExtras

ActSetSource == kind # "QueuedEpochOutput" /\ SetSource

\* One setting is loaded: it makes the queue non-empty.
ActAddSetting == kind = "QueuedEpochOutput" /\ queue.nkeys = 0 /\ AddSetting

\* output.activate(offset): the method of the output's class.
AnyActivate ==
  \E o \in 0..MaxOff :
    LET c == IF kind = "QueuedEpochOutput"
             THEN QueuedEpochOutput_activate(Chan, o)
             ELSE activate(Chan, o)
    IN /\ qlog.acts < MaxActs
       /\ active' = c.active
       /\ _offset' = c.offset
       /\ _buffer' = c.buffer
       /\ source' = c.source
       /\ queue' = c.queue
       /\ qlog' = [qlog EXCEPT !.acts = @ + 1]
       /\ call' = Control("activate", o)
       /\ UNCHANGED <<kind, hist, chain, armed, quiet>>
       /\ UNCHANGED <<auto_decrement, complete_cb, paused, deferred, fired, ts, hw>>
       /\ UNCHANGED <<pvars, xvars>>

\* output.deactivate(offset)
AnyDeactivate ==
  \E o \in 0..MaxOff :
    LET c == deactivate(Chan, o)
    IN /\ active' = c.active
       /\ _offset' = c.offset
       /\ _buffer' = c.buffer
       /\ source' = c.source
       /\ queue' = c.queue
       /\ call' = Control("deactivate", o)
       /\ UNCHANGED <<kind, hist, chain, armed, quiet>>
       /\ UNCHANGED <<auto_decrement, complete_cb, paused, deferred, fired, ts, hw, qlog>>
       /\ UNCHANGED <<pvars, xvars>>

\* The hardware pulls the block after the last one it was handed.
AnyGetSamples ==
  \E n \in 1..MaxN :
    LET o == get_samples_ub(_buffer)
        r == get_samples(Chan, o, n)
    IN /\ r.result = "ok"
       /\ o + n <= MaxRace
       /\ Len(r.ch.queue.tape) <= MaxRace
       /\ Pull(o, n, r)
       /\ queue' = r.ch.queue
       /\ UNCHANGED <<hist, chain>>
       /\ UNCHANGED <<auto_decrement, complete_cb, paused, deferred, fired, ts, hw, qlog>>
       /\ UNCHANGED <<pvars, xvars>>

NextAct ==
  ActSetSource \/ ActAddSetting \/ AnyActivate \/ AnyDeactivate \/ AnyGetSamples

SpecAct == InitAct /\ [][NextAct]_vars

\* ------------------------------------------------- add_setting in full
\* The settings a caller may pass: those of Settings, with or without the
\* two keys.
SettingDicts ==
  {[has_averages |-> ha, has_iti_duration |-> hi, averages |-> x.averages,
    iti_duration |-> x.iti_duration, duration |-> x.duration] :
     x \in Settings, ha \in BOOLEAN, hi \in BOOLEAN}

\* output.add_setting(setting, averages, iti_duration) with any setting, the
\* two arguments given or left None, and a factory that initialises or not.
AddSettingCall ==
  /\ queue.nkeys < MaxSettings
  /\ \E setting \in SettingDicts, ga \in BOOLEAN, gi \in BOOLEAN,
        factory_ok \in BOOLEAN :
       LET averages == IF ga THEN <<setting.averages>> ELSE <<>>
           iti_duration == IF gi THEN <<setting.iti_duration>> ELSE <<>>
           r == QueuedEpochOutput_add_setting(Chan, setting, averages,
                                              iti_duration, factory_ok)
       IN /\ queue' = r.ch.queue
          /\ qlog' = IF r.result = "ok"
                     THEN [qlog EXCEPT !.loaded =
                             Append(@, [key |-> queue.nkeys + 1,
                                        trials |-> setting.averages,
                                        iti_duration |-> setting.iti_duration,
                                        duration |-> setting.duration])]
                     ELSE qlog
          /\ ret' = [op |-> "add_setting", result |-> r.result, flags |-> <<>>,
                     before |-> setting, after |-> r.setting,
                     given |-> <<ga, gi>>, factory_ok |-> factory_ok]
  /\ call' = Control("add_setting", 0)
  /\ UNCHANGED <<kind, _buffer, active, _offset, source, hist, chain, armed, quiet>>
  /\ UNCHANGED <<auto_decrement, complete_cb, paused, deferred, fired, ts, hw>>
  /\ UNCHANGED <<pvars, rt, obs, cal, cvars>>

\* The hardware pulls the block after the last one it was handed, in a
\* short run.
QGetSamplesShort ==
  \E n \in 1..MaxN :
    LET o == get_samples_ub(_buffer)
    IN /\ o + n <= MaxRace
       /\ QPull(o, n, get_samples(Chan, o, n))
       /\ UNCHANGED <<pvars, xvars>>

NextSetting == AddSettingCall \/ QActivate \/ QGetSamplesShort

SpecSetting == InitPause /\ [][NextSetting]_vars

\* ------------------------------------------------- observers
\* output.connect(cb), while the experiment is being wired up.
Connect ==
  /\ call.op \in {"init", "connect"}
  /\ obs.callbacks < MaxObservers
  /\ obs' = connect(obs)
  /\ call' = Control("connect", 0)
  /\ UNCHANGED <<kind, _buffer, active, _offset, source, hist, chain, armed, quiet>>
  /\ UNCHANGED <<qvars, pvars, rt, cal, cvars, ret>>

\* One hardware pull; the records of the trials the queue instantiated
\* during it go through notify to the callbacks.
QGetSamplesNotify ==
  \E o \in 0..MaxQOff, n \in 1..MaxN :
    LET r == get_samples(Chan, o, n)
        new == SubSeq(r.ch.queue.notified, Len(queue.notified) + 1,
                      Len(r.ch.queue.notified))
    IN /\ o = get_samples_ub(_buffer)
       /\ o + n <= MaxQOff
       /\ QPull(o, n, r)
       /\ obs' = notify_each(obs, new)
       /\ UNCHANGED <<pvars, rt, cal, cvars, ret>>

NextNotify == Connect \/ AddSetting \/ QActivate \/ QGetSamplesNotify

\* The target's filter delay is fixed when the experiment is configured.
InitNotify ==
  /\ kind = "QueuedEpochOutput"
  /\ _buffer = SignalBuffer
  /\ active = FALSE
  /\ _offset = 0
  /\ source = None
  /\ call = NoCall
  /\ hist = [i \in 0..(MaxOff - 1) |-> Never]
  /\ chain = NoChain
  /\ armed = FALSE
  /\ quiet = FALSE
  /\ NoQueue
  /\ rt = NoFlight
  /\ obs \in {[NoObservers EXCEPT !.filter_delay = d] : d \in 0..MaxDelay}
  /\ cal = NoCal
  /\ NoController
  /\ ret = NoRet

SpecNotify == InitNotify /\ [][NextNotify]_vars

\* ------------------------------------------------- notify and its caller
\* The most notify calls a caller makes.
MaxNotifies == 2

\* notify shifting t0 in the caller's record instead of in a copy.
Output_notify_in_place(o, data) ==
  LET d == [data EXCEPT !.t0 = @ + o.filter_delay]
  IN [o |-> [o EXCEPT !.received =
                @ \o [cb \in 1..o.callbacks |-> [cb |-> cb, data |-> d]]],
      data |-> d]

\* Lines 65-70 seen from the caller: the output after the call and the
\* caller's record, which only d = data.copy() was changed in place of.
Output_notify(o, data) == [o |-> notify(o, data), data |-> data]

\* The records a caller may hold.
Chunks == {[t0 |-> t, key |-> k] : t \in 0..MaxOff, k \in 1..MaxSettings}

NotifyFrame ==
  /\ UNCHANGED <<kind, _buffer, active, _offset, source, hist, chain, armed, quiet>>
  /\ UNCHANGED <<qvars, pvars, rt, cal, cvars>>

\* The caller makes a record (before it notifies anyone of it).
NewChunk ==
  /\ ret.op = "none"
  /\ \E d \in Chunks :
       ret' = [op |-> "data", result |-> "ok", flags |-> <<>>, data |-> d]
  /\ UNCHANGED <<call, obs>>
  /\ NotifyFrame

\* output.notify(data) with the record the caller holds.
Notify ==
  /\ ret.op \in {"data", "notify"}
  /\ Len(ret.flags) < MaxNotifies
  /\ LET r == Output_notify(obs, ret.data)
     IN /\ obs' = r.o
        /\ ret' = [op |-> "notify", result |-> "ok",
                   flags |-> Append(ret.flags, TRUE), data |-> r.data]
  /\ call' = Control("notify", 0)
  /\ NotifyFrame

NextCaller == Connect \/ NewChunk \/ Notify

SpecCaller == InitNotify /\ [][NextCaller]_vars

\* ------------------------------------- get_samples on the real-time thread
\* The hardware callback runs get_samples statement by statement while the
\* control thread calls the output's methods.  The engine holds engine.lock
\* for the whole of the callback; pause() and resume() take engine.lock
\* (lines 224, 235) and so wait for it; activate(), deactivate() and
\* add_setting() take no lock and run at any point.
\*
\* Lines 119-146: the callback takes the lock, reads the buffer's bounds and
\* copies what the buffer holds.  snap is the channel as the call found it.
RtBegin ==
  \E n \in 1..MaxN :
    LET o == get_samples_ub(_buffer)
        e == Extract(Chan, o, n)
        s0 == Len(e.b)
    IN /\ rt.pc = "idle"
       /\ o + n <= MaxRace
       /\ e.path # "raise"
       /\ rt' = [pc |-> "pre", offset |-> o, samples |-> n,
                 out |-> SetSlice([i \in 1..n |-> Unwritten], 1, s0, e.b),
                 rem |-> n - s0, at |-> o + s0, path |-> e.path, nbuf |-> s0,
                 nzero |-> 0, data |-> <<>>, draws |-> 0, snap |-> Chan]
       /\ call' = Control("get_samples_begin", o)
       /\ UNCHANGED <<kind, _buffer, active, _offset, source, hist, chain, armed, quiet>>
       /\ UNCHANGED <<qvars, pvars, obs, cal, cvars, ret>>

\* Lines 149-158: zeros before the activation offset.
RtPre ==
  LET s == pre_activation(Chan, rt.at, rt.rem)
      n == rt.samples
  IN /\ rt.pc = "pre"
     /\ _buffer' = IF s > 0 THEN append_data(_buffer, Zeros(s)) ELSE _buffer
     /\ rt' = [rt EXCEPT !.pc = "gen",
                         !.out = IF s > 0
                                 THEN SetSlice(@, n - rt.rem + 1, n - rt.rem + s, Zeros(s))
                                 ELSE @,
                         !.rem = @ - s, !.at = @ + s, !.nzero = s]
     /\ UNCHANGED <<kind, active, _offset, source, call, hist, chain, armed, quiet>>
     /\ UNCHANGED <<qvars, pvars, obs, cal, cvars, ret>>

\* Lines 161-162: data = self.get_next_samples(samples).
RtGen ==
  LET g == get_next_samples(Chan, rt.rem)
  IN /\ rt.pc = "gen"
     /\ IF rt.rem > 0
        THEN /\ active' = g.ch.active
             /\ queue' = g.ch.queue
             /\ deferred' = g.ch.deferred
             /\ fired' = g.ch.fired
             /\ qlog' = [LogAfter(g.ch.queue) EXCEPT !.popped = @ + g.draws]
             /\ rt' = [rt EXCEPT !.pc = "app", !.data = g.data, !.draws = g.draws]
        ELSE /\ rt' = [rt EXCEPT !.pc = "app"]
             /\ UNCHANGED <<active, queue, deferred, fired, qlog>>
     /\ UNCHANGED <<kind, _buffer, _offset, source, call, hist, chain, armed, quiet>>
     /\ UNCHANGED <<auto_decrement, complete_cb, paused, ts, hw>>
     /\ UNCHANGED <<pvars, obs, cal, cvars, ret>>

\* Lines 163-164: the new samples go to the buffer and to out; the callback
\* returns and gives the lock back.
RtAppend ==
  LET n == rt.samples
  IN /\ rt.pc = "app"
     /\ _buffer' = IF rt.rem > 0 THEN append_data(_buffer, rt.data) ELSE _buffer
     /\ call' = [op |-> "get_samples", offset |-> rt.offset, samples |-> n,
                 out |-> IF rt.rem > 0
                         THEN SetSlice(rt.out, n - rt.rem + 1, n, rt.data)
                         ELSE rt.out,
                 result |-> "ok", path |-> rt.path, nbuf |-> rt.nbuf,
                 nzero |-> rt.nzero, ngen |-> Len(rt.data), draws |-> rt.draws,
                 genAt |-> -1, drawAt |-> -1]
     /\ rt' = NoFlight
     /\ UNCHANGED <<kind, active, _offset, source, hist, chain, armed, quiet>>
     /\ UNCHANGED <<qvars, pvars, obs, cal, cvars, ret>>

\* output.deactivate(offset) at the offset the hardware pulls next.
QDeactivate ==
  LET o == get_samples_ub(_buffer)
      c == deactivate(Chan, o)
  IN /\ active
     /\ qlog.acts < MaxActs
     /\ active' = c.active
     /\ source' = c.source
     /\ _buffer' = c.buffer
     /\ call' = Control("deactivate", o)
     /\ UNCHANGED <<kind, _offset, hist, chain, armed, quiet>>
     /\ UNCHANGED <<qvars, pvars, xvars>>

\* pause() and resume() wait for engine.lock: they run between callbacks.
LockedPause == rt.pc = "idle" /\ Pause

LockedResume == rt.pc = "idle" /\ Resume

NextRace ==
  \/ RtBegin \/ RtPre \/ RtGen \/ RtAppend
  \/ AddSetting \/ QActivate \/ QDeactivate
  \/ LockedPause \/ LockedResume

SpecRace == InitPause /\ [][NextRace]_vars

\* ------------------------------------------------- the queue on its own
\* The queue driven directly, as tests/test_queue.py drives it: append,
\* pop_buffer and next_trial.  t0 is 0 (set_t0(0)).
QueueAppend ==
  /\ queue.nkeys < MaxSettings
  /\ \E x \in Settings :
       /\ queue' = append(queue, x.averages, x.iti_duration, x.duration)
       /\ qlog' = [qlog EXCEPT !.loaded =
                     Append(@, [key |-> queue.nkeys + 1, trials |-> x.averages,
                                iti_duration |-> x.iti_duration,
                                duration |-> x.duration])]
  /\ call' = Control("append", 0)
  /\ UNCHANGED <<kind, _buffer, active, _offset, source, hist, chain, armed, quiet>>
  /\ UNCHANGED <<auto_decrement, complete_cb, paused, deferred, fired, ts, hw>>
  /\ UNCHANGED <<pvars, xvars>>

QueuePopBuffer ==
  \E n \in 1..MaxN :
    LET r == pop_buffer(queue, n, auto_decrement)
    IN /\ queue.samples + n <= MaxOff
       /\ Len(queue.tape) + n <= MaxOff
       /\ queue' = r.q
       /\ qlog' = [LogAfter(r.q) EXCEPT !.popped = @ + n]
       /\ call' = Control("pop_buffer", 0)
       /\ UNCHANGED <<kind, _buffer, active, _offset, source, hist, chain, armed, quiet>>
       /\ UNCHANGED <<auto_decrement, complete_cb, paused, deferred, fired, ts, hw>>
       /\ UNCHANGED <<pvars, xvars>>

NextFifo == QueueAppend \/ QueuePopBuffer \/ NextTrial

InitFifo == InitQueue /\ complete_cb = FALSE

SpecFifo == InitFifo /\ [][NextFifo]_vars

\* ------------------------------------------------------------ calibration
\* psi.controller.calibration: a calibration stores frequencies, the
\* sensitivity at each and a fixed gain, and get_sens(frequency) looks a
\* sensitivity up.  Frequencies and sensitivities are whole numbers here; an
\* interpolated value is the exact fraction num/den.

\* Calibrated frequencies are 1..MaxFreq; lookups ask for 0..MaxFreq + 1.
MaxFreq == 3
\* The most points a calibration stores.
MaxPts == 2

CalSensitivities == {-1, 2}
CalGains == {0, 1}

\* np.flatnonzero(np.equal(self.frequency, frequency)): the indices whose
\* frequency equals the one asked for.
flatnonzero_equal(c, f) == {i \in 1..Len(c.frequency) : c.frequency[i] = f}

SetMin(S) == CHOOSE i \in S : \A j \in S : i <= j

\* _get_sens falling back on the first point for a frequency that is not
\* calibrated.
_get_sens_first(c, f) ==
  LET m == flatnonzero_equal(c, f)
      i == IF m = {} THEN 1 ELSE SetMin(m)
  IN [result |-> "ok", value |-> c.sensitivity[i] - c.fixed_gain]

\* PointCalibration._get_sens, lines 277-284: element [0] of the matches;
\* IndexError (no match) becomes CalibrationError.
_get_sens(c, f) ==
  LET m == flatnonzero_equal(c, f)
  IN IF m = {}
     THEN [result |-> "CalibrationError", value |-> 0]
     ELSE [result |-> "ok", value |-> c.sensitivity[SetMin(m)] - c.fixed_gain]

\* PointCalibration.get_sens, lines 271-275: element by element for an
\* iterable (the first failure propagates), else one lookup.
PointCalibration_get_sens(c, frequency, iterable) ==
  IF iterable
  THEN LET r == [i \in 1..Len(frequency) |-> _get_sens(c, frequency[i])]
       IN IF \E i \in 1..Len(frequency) : r[i].result # "ok"
          THEN [result |-> "CalibrationError", value |-> <<>>]
          ELSE [result |-> "ok",
                value |-> [i \in 1..Len(frequency) |-> r[i].value]]
  ELSE _get_sens(c, frequency)

NaN == [nan |-> TRUE, num |-> 0, den |-> 1]

\* np.searchsorted(x, v): how many entries of the sorted x lie below v.
searchsorted(x, v) == Cardinality({i \in 1..Len(x) : x[i] < v})

\* interp1d(frequency, sensitivity, 'linear', bounds_error=False), line 245:
\* the segment around v is found by searchsorted, clipped to the segments
\* there are; outside [x[0], x[-1]] the value is the fill value NaN and no
\* error is raised.
interp1d(x, y, v) ==
  IF v < x[1] \/ v > x[Len(x)]
  THEN NaN
  ELSE LET lo == Max(1, Min(searchsorted(x, v), Len(x) - 1))
           hi == lo + 1
       IN [nan |-> FALSE,
           num |-> y[lo] * (x[hi] - x[lo]) + (y[hi] - y[lo]) * (v - x[lo]),
           den |-> x[hi] - x[lo]]

\* value - gain on fractions; NaN stays NaN.
MinusGain(v, g) == IF v.nan THEN v ELSE [v EXCEPT !.num = @ - g * v.den]

\* InterpCalibration.get_sens, lines 249-252; numpy maps it over an array.
InterpCalibration_get_sens(c, frequency, iterable) ==
  IF iterable
  THEN [result |-> "ok",
        value |-> [i \in 1..Len(frequency) |->
                     MinusGain(interp1d(c.frequency, c.sensitivity,
                                        frequency[i]), c.fixed_gain)]]
  ELSE [result |-> "ok",
        value |-> MinusGain(interp1d(c.frequency, c.sensitivity, frequency),
                            c.fixed_gain)]

\* Sequences of length n over S.
Tuples(S, n) == [1..n -> S]

\* PointCalibration(frequency, sensitivity, fixed_gain), lines 261-269: any
\* frequencies, repeated ones included, and as many sensitivities.
PointCalibrations ==
  { [variant |-> "point", frequency |-> f, sensitivity |-> s, fixed_gain |-> g] :
      f \in UNION {Tuples(1..MaxFreq, n) : n \in 1..MaxPts},
      s \in UNION {Tuples(CalSensitivities, n) : n \in 1..MaxPts},
      g \in CalGains }

\* InterpCalibration(frequency, sensitivity, fixed_gain), lines 241-247: at
\* least two points at increasing frequencies.
InterpCalibrations ==
  { [variant |-> "interp", frequency |-> f, sensitivity |-> s, fixed_gain |-> g] :
      f \in UNION {Tuples(1..MaxFreq, n) : n \in 2..MaxPts},
      s \in UNION {Tuples(CalSensitivities, n) : n \in 2..MaxPts},
      g \in CalGains }

Calibrations ==
  { c \in PointCalibrations \cup InterpCalibrations :
      /\ Len(c.frequency) = Len(c.sensitivity)
      /\ c.variant = "interp" =>
           \A i \in 1..(Len(c.frequency) - 1) : c.frequency[i] < c.frequency[i + 1] }

\* calibration.get_sens(frequency) of the calibration's class.
get_sens(c, frequency, iterable) ==
  IF c.variant = "point"
  THEN PointCalibration_get_sens(c, frequency, iterable)
  ELSE InterpCalibration_get_sens(c, frequency, iterable)

CalFrame ==
  /\ UNCHANGED <<kind, _buffer, active, _offset, source, call, hist, chain>>
  /\ UNCHANGED <<armed, quiet, qvars, pvars, rt, obs>>

\* get_sens(f) for one frequency.
Lookup ==
  \E f \in 0..(MaxFreq + 1) :
    LET r == get_sens(cal, f, FALSE)
    IN /\ ret' = [op |-> "get_sens", result |-> r.result, flags |-> <<>>,
                  iterable |-> FALSE, frequency |-> f, value |-> r.value]
       /\ UNCHANGED <<cal, cvars>>
       /\ CalFrame

\* get_sens(frequencies) for a list of two.
LookupAll ==
  \E f \in Tuples(0..(MaxFreq + 1), 2) :
    LET r == get_sens(cal, f, TRUE)
    IN /\ ret' = [op |-> "get_sens", result |-> r.result, flags |-> <<>>,
                  iterable |-> TRUE, frequency |-> f, value |-> r.value]
       /\ UNCHANGED <<cal, cvars>>
       /\ CalFrame

NextCal == Lookup \/ LookupAll

\* The calibration is fixed when it is loaded.
InitCal ==
  /\ kind = "EpochOutput"
  /\ _buffer = SignalBuffer
  /\ active = FALSE
  /\ _offset = 0
  /\ source = None
  /\ call = NoCall
  /\ hist = [i \in 0..(MaxOff - 1) |-> Never]
  /\ chain = NoChain
  /\ armed = FALSE
  /\ quiet = FALSE
  /\ NoQueue
  /\ rt = NoFlight
  /\ obs = NoObservers
  /\ cal \in Calibrations
  /\ NoController
  /\ ret = NoRet

SpecCal == InitCal /\ [][NextCal]_vars

\* ------------------------------------------------------ controller plugin
\* psi/controller/plugin.py.  A dict is a function from its keys; {} is the
\* function with no key.

\* d[key] = value
DictSet(d, key, value) ==
  [x \in DOMAIN d \cup {key} |-> IF x = key THEN value ELSE d[x]]

\* The engines an IO manifest may contribute: a name, the master_clock flag
\* and the object's identity (its place among the contributions).
MaxEngines == 3
EngineNames == {"a", "b", "c"}
Engines(id) ==
  {[name |-> n, master_clock |-> m, id |-> id] : n \in EngineNames, m \in BOOLEAN}

\* One round of the loop of find_engines taking the last engine flagged
\* master_clock instead of failing on the second.
find_engines_step_last_master(acc, e) ==
  IF acc.result # "ok" THEN acc
  ELSE IF e.name \in DOMAIN acc.engines
  THEN [acc EXCEPT !.result = "ValueError"]
  ELSE LET engines == DictSet(acc.engines, e.name, e)
       IN IF e.master_clock
          THEN [acc EXCEPT !.engines = engines, !.master_engine = e]
          ELSE [acc EXCEPT !.engines = engines]

\* Lines 67-76: one round of the loop over the contributed engines; a raise
\* ends the function.
find_engines_step(acc, e) ==
  IF acc.result # "ok" THEN acc
  ELSE IF e.name \in DOMAIN acc.engines
  THEN [acc EXCEPT !.result = "ValueError"]
  ELSE LET engines == DictSet(acc.engines, e.name, e)
       IN IF e.master_clock
          THEN IF acc.master_engine # Nobody
               THEN [acc EXCEPT !.engines = engines, !.result = "ValueError"]
               ELSE [acc EXCEPT !.engines = engines, !.master_engine = e]
          ELSE [acc EXCEPT !.engines = engines]

RECURSIVE find_engines_loop(_, _)
find_engines_loop(acc, point) ==
  IF point = <<>> THEN acc
  ELSE find_engines_loop(find_engines_step(acc, Head(point)), Tail(point))

\* Lines 64-86: find_engines(point).
find_engines(point) ==
  LET acc == find_engines_loop([result |-> "ok", engines |-> <<>>,
                                master_engine |-> Nobody], point)
  IN IF acc.result # "ok" THEN acc
     ELSE IF acc.master_engine = Nobody
     THEN \* The first engine is the master by default
          IF Cardinality(DOMAIN acc.engines) = 1
          THEN [acc EXCEPT !.master_engine =
                  acc.engines[CHOOSE n \in DOMAIN acc.engines : TRUE]]
          ELSE [acc EXCEPT !.result = "ValueError"]
     ELSE acc

\* Lines 225-230: _refresh_io assigns what find_engines returns; nothing is
\* assigned when it raises.
_refresh_io(point) ==
  LET r == find_engines(point)
  IN /\ _engines' = IF r.result = "ok" THEN r.engines ELSE _engines
     /\ _master_engine' = IF r.result = "ok" THEN r.master_engine
                          ELSE _master_engine
     /\ ret' = [op |-> "find_engines", result |-> r.result, flags |-> <<>>]

EnginesFrame ==
  /\ UNCHANGED <<kind, _buffer, active, _offset, source, call, hist, chain>>
  /\ UNCHANGED <<armed, quiet, qvars, pvars, rt, obs, cal>>
  /\ UNCHANGED <<_actions, _action_context, _timers, timers>>
  /\ UNCHANGED <<experiment_state, _pause_requested, loop, trace>>

\* A manifest contributes an engine before the plugin is started: nobody
\* observes the extension point yet.
Contribute ==
  /\ ret.op = "none"
  /\ Len(io_point) < MaxEngines
  /\ \E e \in Engines(Len(io_point) + 1) : io_point' = Append(io_point, e)
  /\ UNCHANGED <<_engines, _master_engine, ret>>
  /\ EnginesFrame

\* plugin.start(), lines 205-208: _refresh_io() and the observers are bound.
StartPlugin ==
  /\ ret.op = "none"
  /\ _refresh_io(io_point)
  /\ UNCHANGED io_point
  /\ EnginesFrame

\* A manifest contributes an engine to the started plugin: the observer of
\* the extension point runs _refresh_io.
ContributeRefresh ==
  /\ ret.op # "none"
  /\ Len(io_point) < MaxEngines
  /\ \E e \in Engines(Len(io_point) + 1) :
       /\ io_point' = Append(io_point, e)
       /\ _refresh_io(Append(io_point, e))
  /\ EnginesFrame

NextEngines == Contribute \/ StartPlugin \/ ContributeRefresh

\* The plugin before start(), next to an output nobody uses.
InitController == Init /\ kind = "EpochOutput"

SpecEngines == InitController /\ [][NextEngines]_vars

\* ------------------------------------------------- events and actions
\* An event or context key is named base + suffix: trial_start is
\* [base |-> "trial", suffix |-> "_start"], the flag of the state trial is
\* trial_active.
Key(base, suffix) == [base |-> base, suffix |-> suffix]

NoKey == Key("", "")

\* The states and the events the action manifests declare; a state X
\* generates the events X_start and X_end.
StateNames == {"experiment", "trial"}

PlainEvents ==
  {Key("experiment", "_initialize"), Key("experiment", "_prepare"),
   Key("experiment", "_event")}

EventNames ==
  PlainEvents \cup {Key(x, s) : x \in StateNames, s \in {"_start", "_end"}}

\* What an action does when it is invoked: nothing that matters here, raise,
\* or invoke the actions of another event.
Does(op, event) == [op |-> op, event |-> event]

\* An action: the event it is bound to, the state flag it asks for (NoKey:
\* none) and what its command does.
Action(event, when, does) == [event |-> event, when |-> when, does |-> does]

\* The lists of actions a set of manifests may contribute, sorted by weight.
QuietActions ==
  << Action(Key("trial", "_start"), NoKey, Does("nothing", NoKey)),
     Action(Key("trial", "_end"), Key("experiment", "_active"),
            Does("nothing", NoKey)),
     Action(Key("experiment", "_prepare"), NoKey,
            Does("invoke", Key("trial", "_start"))),
     Action(Key("experiment", "_event"), NoKey, Does("nothing", NoKey)) >>

FailingActions ==
  << Action(Key("experiment", "_end"), NoKey, Does("raise", NoKey)),
     Action(Key("experiment", "_end"), NoKey, Does("nothing", NoKey)),
     Action(Key("trial", "_start"), NoKey,
            Does("invoke", Key("trial", "_end"))) >>

ActionLists == {QuietActions, FailingActions}

\* Lines 336-339: every state flag and every event key is False.
NewContext ==
  [k \in {Key(x, "_active") : x \in StateNames} \cup EventNames |-> FALSE]

\* action.match(context): the action's event is set and so is the state flag
\* it asks for.
match(a, context) ==
  /\ a.event \in DOMAIN context /\ context[a.event]
  /\ a.when # NoKey => (a.when \in DOMAIN context /\ context[a.when])

\* A call on the application's queue of deferred calls.
LoopCall(fn, name) ==
  [fn |-> fn, name |-> name, delay |-> 0, timestamp |-> NoTime,
   cancel |-> FALSE, value |-> "", origin |-> ""]

\* What a call of the plugin works on: the actions, the action context, the
\* queue of deferred calls, the record of what ran, the engine time, and
\* whether an exception is on its way up.
Plugin ==
  [actions |-> _actions, context |-> _action_context, loop |-> loop,
   trace |-> trace, now |-> ts, raised |-> FALSE]

Ran(what, event, action) == [what |-> what, event |-> event, action |-> action]

\* UpdateState that sets the flag on X_start and leaves it alone on X_end.
UpdateState_start_only(context, event_name) ==
  IF event_name.suffix = "_start"
  THEN DictSet(context, Key(event_name.base, "_active"), TRUE)
  ELSE context

\* Lines 477-482: a stateful event updates the flag of its state.
UpdateState(context, event_name) ==
  IF event_name.suffix = "_start"
  THEN DictSet(context, Key(event_name.base, "_active"), TRUE)
  ELSE IF event_name.suffix = "_end"
  THEN DictSet(context, Key(event_name.base, "_active"), FALSE)
  ELSE context

RECURSIVE invoke_actions(_, _, _, _, _)
RECURSIVE _invoke_actions(_, _, _)
RECURSIVE run_actions(_, _, _, _)

\* Lines 491-494 and _invoke_action: the actions that match the context of
\* this invocation run in order; an exception ends the loop.
run_actions(p, context, event_name, i) ==
  IF p.raised \/ i > Len(p.actions) THEN p
  ELSE LET a == p.actions[i]
       IN IF ~match(a, context)
          THEN run_actions(p, context, event_name, i + 1)
          ELSE LET p1 == [p EXCEPT !.trace = Append(@, Ran("action", event_name, i))]
                   p2 == IF a.does.op = "raise" THEN [p1 EXCEPT !.raised = TRUE]
                         ELSE IF a.does.op = "invoke"
                         THEN invoke_actions(p1, a.does.event, NoTime, FALSE, TRUE)
                         ELSE p1
               IN run_actions(p2, context, event_name, i + 1)

\* Lines 470-494: _invoke_actions(event_name, timestamp).  The record of
\* what ran gets the event when its state flag is updated.
_invoke_actions(p, event_name, timestamp) ==
  LET p1 == IF timestamp # NoTime
            THEN invoke_actions(p, Key("experiment", "_event"), NoTime, FALSE, TRUE)
            ELSE p
  IN IF p1.raised THEN p1
     ELSE LET p2 == [p1 EXCEPT !.context = UpdateState(@, event_name),
                               !.trace = Append(@, Ran("event", event_name, 0))]
              \* Make a copy of the context and set the event to True.
              context == DictSet(p2.context, event_name, TRUE)
          IN run_actions(p2, context, event_name, 1)

\* Lines 432-443: invoke_actions(event_name, timestamp, delayed,
\* cancel_existing).
invoke_actions(p, event_name, timestamp, delayed, cancel_existing) ==
  LET p1 == IF cancel_existing
            THEN [p EXCEPT !.loop = Append(@, LoopCall("stop_timer", event_name))]
            ELSE p
      delay == timestamp - p.now
  IN IF delayed /\ delay > 0
     THEN [p1 EXCEPT !.loop =
             Append(@, [LoopCall("start_timer", event_name)
                          EXCEPT !.delay = delay, !.timestamp = timestamp,
                                 !.cancel = cancel_existing])]
     ELSE _invoke_actions(p1, event_name, timestamp)

\* ------------------------------------------------- the plugin's calls
\* Largest number of calls made to the plugin in one run.
MaxInvokes == 2
\* The engine time the model runs to.
MaxClock == 1

\* A QTimer started by start_timer: the event it is for, when it is due, the
\* timestamp its callback passes on, whether it is pending, fired or stopped,
\* whether start_timer replaced it in _timers while it was pending (dropped),
\* and whether the call that started it asked to cancel the existing one.
Timer(name, due, timestamp, cancel) ==
  [name |-> name, due |-> due, timestamp |-> timestamp, status |-> "pending",
   dropped |-> FALSE, cancel |-> cancel]

\* del d[key]
DictDel(d, key) == [x \in DOMAIN d \ {key} |-> d[x]]

\* A call handed to deferred_call(lambda: setattr(self, attr, value)).
SetAttr(attr, value, origin) ==
  [LoopCall(attr, NoKey) EXCEPT !.value = value, !.origin = origin]

\* What a call of the plugin leaves behind.
Apply(p) ==
  /\ _action_context' = p.context
  /\ loop' = p.loop
  /\ trace' = p.trace

\* What the calls of the plugin leave alone.
ControllerFrame ==
  /\ UNCHANGED <<kind, _buffer, active, _offset, source, hist, chain, armed, quiet>>
  /\ UNCHANGED <<queue, auto_decrement, complete_cb, paused, deferred, fired, hw, qlog>>
  /\ UNCHANGED <<pvars, rt, obs, cal, io_point, _engines, _master_engine>>

\* What the last call was and how it ended; flags: the calls so far.
Called(op, raised) ==
  [op |-> op, result |-> IF raised THEN "Exception" ELSE "ok",
   flags |-> Append(ret.flags, raised)]

\* _refresh_actions(), lines 312-346: called by start() and whenever the
\* extensions of the action point change.
RefreshActions ==
  /\ Len(ret.flags) < MaxInvokes
  /\ \E a \in ActionLists : _actions' = a
  /\ _action_context' = NewContext
  /\ ret' = Called("_refresh_actions", FALSE)
  /\ call' = Control("_refresh_actions", 0)
  /\ UNCHANGED <<_timers, timers, experiment_state, _pause_requested, loop, trace>>
  /\ UNCHANGED ts
  /\ ControllerFrame

\* The events engine callbacks and commands invoke (start_experiment and
\* stop_experiment invoke those of the experiment).
InvokedEvents == {Key("trial", "_start"), Key("trial", "_end")}

\* invoke_actions(event_name, timestamp, delayed, cancel_existing) by an
\* engine callback or a command: at once and without a timestamp (and with
\* the default cancel_existing), or delayed to a timestamp that is now or
\* the last instant of the run.  The event loop is at most MaxInvokes calls
\* behind.
Invoke(events, most) ==
  \E e \in events,
     t \in {NoTime, ts, MaxClock}, delayed \in BOOLEAN, cancel_existing \in BOOLEAN :
    LET p == invoke_actions(Plugin, e, t, delayed, cancel_existing)
    IN /\ delayed <=> t # NoTime
       /\ delayed \/ cancel_existing
       /\ Len(loop) < most
       /\ Apply(p)
       /\ ret' = [event |-> e] @@ Called("invoke_actions", p.raised)
       /\ call' = [Control("invoke_actions", t) EXCEPT !.path =
                     IF delayed /\ t > ts THEN "delayed" ELSE "now"]
       /\ UNCHANGED <<_actions, _timers, timers, experiment_state, _pause_requested>>
       /\ UNCHANGED ts
       /\ ControllerFrame

InvokeActions ==
  /\ Len(ret.flags) < MaxInvokes
  /\ Invoke(InvokedEvents, MaxInvokes)

\* start_timer(name, duration, callback), lines 553-559, run by the event
\* loop at time now.
start_timer(c, now) ==
  LET old == IF c.name \in DOMAIN _timers THEN _timers[c.name] ELSE 0
      kept == IF old > 0 /\ timers[old].status = "pending"
              THEN [timers EXCEPT ![old].dropped = TRUE]
              ELSE timers
  IN /\ timers' = Append(kept, Timer(c.name, now + c.delay, c.timestamp, c.cancel))
     /\ _timers' = DictSet(_timers, c.name, Len(timers) + 1)

\* stop_timer(name), lines 561-566.
stop_timer(c) ==
  IF c.name \in DOMAIN _timers
  THEN /\ timers' = [timers EXCEPT ![_timers[c.name]].status =
                       IF @ = "pending" THEN "stopped" ELSE @]
       /\ _timers' = DictDel(_timers, c.name)
  ELSE UNCHANGED <<timers, _timers>>

\* The event loop runs the oldest deferred call.
RunLoop ==
  /\ loop # <<>>
  /\ LET c == Head(loop)
     IN /\ IF c.fn = "stop_timer" THEN stop_timer(c)
           ELSE IF c.fn = "start_timer" THEN start_timer(c, ts)
           ELSE UNCHANGED <<timers, _timers>>
        /\ experiment_state' = IF c.fn = "experiment_state" THEN c.value
                               ELSE experiment_state
        /\ _pause_requested' = IF c.fn = "_pause_requested" THEN TRUE
                               ELSE _pause_requested
  /\ loop' = Tail(loop)
  /\ call' = Control("deferred_call", 0)
  /\ UNCHANGED <<_actions, _action_context, trace, ts, ret>>
  /\ ControllerFrame

\* A pending single-shot timer expires: its callback runs
\* _invoke_actions(event_name, timestamp).
Expire ==
  \E i \in 1..Len(timers) :
    LET p == _invoke_actions(Plugin, timers[i].name, timers[i].timestamp)
    IN /\ timers[i].status = "pending"
       /\ ts >= timers[i].due
       /\ timers' = [timers EXCEPT ![i].status = "fired"]
       /\ Apply(p)
       /\ call' = Control("timeout", i)
       /\ UNCHANGED <<_actions, _timers, experiment_state, _pause_requested>>
       /\ UNCHANGED <<ts, ret>>
       /\ ControllerFrame

\* The engine's clock moves on.
Advance ==
  /\ ts < MaxClock
  /\ ts' = ts + 1
  /\ call' = Control("clock", 0)
  /\ UNCHANGED <<_actions, _action_context, _timers, timers>>
  /\ UNCHANGED <<experiment_state, _pause_requested, loop, trace, ret>>
  /\ ControllerFrame

\* invoke_actions(event_name) unless an exception is already on its way up.
Then(p, event_name) ==
  IF p.raised THEN p ELSE invoke_actions(p, event_name, NoTime, FALSE, TRUE)

\* start_experiment(), lines 531-535.
start_experiment(p) ==
  LET p3 == Then(Then(Then(p, Key("experiment", "_initialize")),
                      Key("experiment", "_prepare")),
                 Key("experiment", "_start"))
  IN IF p3.raised THEN p3
     ELSE [p3 EXCEPT !.loop =
             Append(@, SetAttr("experiment_state", "running", "start_experiment"))]

\* stop_experiment giving up when an action raises.
stop_experiment_uncaught(p) ==
  LET p1 == invoke_actions(p, Key("experiment", "_end"), p.now, FALSE, TRUE)
  IN IF p1.raised THEN p1
     ELSE [p1 EXCEPT !.loop =
             Append(@, SetAttr("experiment_state", "stopped", "stop_experiment"))]

\* stop_experiment(), lines 537-542: the exception of an action is logged.
stop_experiment(p) ==
  LET p1 == invoke_actions(p, Key("experiment", "_end"), p.now, FALSE, TRUE)
  IN [p1 EXCEPT !.raised = FALSE,
                !.loop = Append(@, SetAttr("experiment_state", "stopped",
                                           "stop_experiment"))]

StartExperiment ==
  LET p == start_experiment(Plugin)
  IN /\ Len(ret.flags) < MaxInvokes
     /\ Apply(p)
     /\ ret' = Called("start_experiment", p.raised)
     /\ call' = Control("start_experiment", 0)
     /\ UNCHANGED <<_actions, _timers, timers, experiment_state, _pause_requested>>
     /\ UNCHANGED ts
     /\ ControllerFrame

StopExperiment ==
  LET p == stop_experiment(Plugin)
  IN /\ Len(ret.flags) < MaxInvokes
     /\ Apply(p)
     /\ ret' = Called("stop_experiment", p.raised)
     /\ call' = Control("stop_experiment", 0)
     /\ UNCHANGED <<_actions, _timers, timers, experiment_state, _pause_requested>>
     /\ UNCHANGED ts
     /\ ControllerFrame

NextController ==
  \/ RefreshActions
  \/ InvokeActions
  \/ RunLoop
  \/ Expire
  \/ Advance
  \/ StartExperiment
  \/ StopExperiment

\* The plugin after start(): _refresh_actions() has loaded the actions of the
\* manifests and every flag is False.
InitStarted ==
  /\ kind = "EpochOutput"
  /\ _buffer = SignalBuffer
  /\ active = FALSE
  /\ _offset = 0
  /\ source = None
  /\ call = NoCall
  /\ hist = [i \in 0..(MaxOff - 1) |-> Never]
  /\ chain = NoChain
  /\ armed = FALSE
  /\ quiet = FALSE
  /\ NoQueue
  /\ rt = NoFlight
  /\ obs = NoObservers
  /\ cal = NoCal
  /\ ret = NoRet
  /\ io_point = <<>>
  /\ _engines = <<>>
  /\ _master_engine = Nobody
  /\ _actions \in ActionLists
  /\ _action_context = NewContext
  /\ _timers = <<>>
  /\ timers = <<>>
  /\ experiment_state = "initialized"
  /\ _pause_requested = FALSE
  /\ loop = <<>>
  /\ trace = <<>>

SpecController == InitStarted /\ [][NextController]_vars

\* The event loop keeps running: a deferred call is not left waiting for
\* ever.
FairController == SpecController /\ WF_vars(RunLoop)

\* ------------------------------------------------- delayed events
\* Largest number of invocations of the event that is delayed.
MaxTimers == 3

\* The event an engine callback delays.
TimedEvents == {Key("trial", "_end")}

InvokeTimed ==
  /\ Len(ret.flags) < MaxTimers
  /\ Invoke(TimedEvents, MaxTimers)

NextTimers == InvokeTimed \/ RunLoop \/ Expire \/ Advance

SpecTimers == InitStarted /\ [][NextTimers]_vars

\* ------------------------------------------------- pause and resume
\* Largest number of requests made in one run.
MaxRequests == 3

\* The requests made so far, oldest first.
Requests == IF "requests" \in DOMAIN ret THEN ret.requests ELSE <<>>

Requested(op, raised) ==
  [requests |-> Append(Requests, op)] @@ Called(op, raised)

\* What pause_experiment() of the controller in use does: it pauses the
\* experiment and returns True, it returns False because the experiment
\* cannot pause now, or it is the one of this class, which raises
\* NotImplementedError (lines 544-545).
PauseOutcomes == {"True", "False", "NotImplementedError"}

\* request_pause(), lines 519-522.
request_pause(outcome) ==
  /\ experiment_state' = IF outcome = "True" THEN "paused" ELSE experiment_state
  /\ _pause_requested' = _pause_requested
  /\ loop' = IF outcome = "False"
             THEN Append(loop, SetAttr("_pause_requested", "True", "request_pause"))
             ELSE loop

\* request_resume(), lines 524-526.
request_resume ==
  /\ _pause_requested' = FALSE
  /\ loop' = Append(loop, SetAttr("experiment_state", "running", "request_resume"))
  /\ experiment_state' = experiment_state

RequestPause ==
  /\ Len(ret.flags) < MaxRequests
  /\ \E outcome \in PauseOutcomes :
       /\ request_pause(outcome)
       /\ ret' = Requested("request_pause", outcome = "NotImplementedError")
  /\ call' = Control("request_pause", 0)
  /\ UNCHANGED <<_actions, _action_context, _timers, timers, trace, ts>>
  /\ ControllerFrame

RequestResume ==
  /\ Len(ret.flags) < MaxRequests
  /\ request_resume
  /\ ret' = Requested("request_resume", FALSE)
  /\ call' = Control("request_resume", 0)
  /\ UNCHANGED <<_actions, _action_context, _timers, timers, trace, ts>>
  /\ ControllerFrame

NextRequests == RequestPause \/ RequestResume \/ RunLoop

SpecRequests == InitStarted /\ [][NextRequests]_vars

\* ---------------------------------------------------------------- claims
IsPull(c) == c.op = "get_samples"

\* The positions of out that the call produced itself (not from the buffer).
NewPositions(c) == (c.nbuf + 1)..c.samples

\* C1: pull-chunking is transparent: a run of get_samples calls with
\* non-decreasing, gap-free offsets, the first at the buffer's upper bound,
\* yields in the newly covered parts of its chunks exactly the samples of one
\* get_samples call of the total length from the same starting state.
C1_ChunkingTransparent ==
  chain.on
    => LET one == get_samples(chain.s0, chain.start, chain.end - chain.start)
       IN one.result = "ok" => one.out = chain.acc

\* C2: a get_samples(offset, n) with [offset, offset + n) inside the buffered
\* range returns exactly the samples returned before for those offsets, asks
\* the source for nothing and leaves the buffer bounds unchanged.
C2_CachedPullAgrees ==
  [][(/\ IsPull(call')
      /\ get_samples_lb(_buffer) <= call'.offset
      /\ call'.offset + call'.samples <= get_samples_ub(_buffer))
       => /\ call'.result = "ok"
          /\ \A i \in 1..call'.samples :
                call'.out[i] = hist[call'.offset + i - 1]
          /\ call'.draws = 0 /\ call'.ngen = 0 /\ call'.nzero = 0
          /\ get_samples_lb(_buffer') = get_samples_lb(_buffer)
          /\ get_samples_ub(_buffer') = get_samples_ub(_buffer)]_vars

\* C3: get_samples(offset, n) with offset strictly above the buffer's upper
\* bound raises, and nothing has changed: buffer, active flag, activation
\* offset and source are as before and no sample was drawn from the source.
C3_GapRaisesUnchanged ==
  [][(IsPull(call') /\ call'.offset > get_samples_ub(_buffer))
       => /\ call'.result = "SystemError"
          /\ call'.draws = 0
          /\ UNCHANGED <<_buffer, active, _offset, source>>]_vars

C3_Witness ==
  /\ IsPull(call)
  /\ call.result = "SystemError"
  /\ call.offset > get_samples_ub(_buffer)
  /\ active /\ source # None

\* C5: a get_samples(offset, n) that does not raise, with
\* buffered_lb <= offset <= buffered_ub, fills all n positions of out: the
\* samples from the buffer, the pre-activation zeros and the samples of
\* get_next_samples add up to exactly n.
C5_FillsAllPositions ==
  [][(/\ IsPull(call')
      /\ call'.result = "ok"
      /\ get_samples_lb(_buffer) <= call'.offset
      /\ call'.offset <= get_samples_ub(_buffer))
       => /\ Len(call'.out) = call'.samples
          /\ call'.nbuf + call'.nzero + call'.ngen = call'.samples
          /\ \A i \in 1..call'.samples : call'.out[i] # Unwritten]_vars

C5_Witness ==
  /\ IsPull(call)
  /\ call.result = "ok"
  /\ call.nbuf > 0 /\ call.nzero > 0 /\ call.ngen > 0

\* C6: a pull whose start offset is below the buffer's lower bound fails: it
\* returns no samples, draws nothing from the source and appends nothing.
C6_EvictedPullFails ==
  [][(IsPull(call') /\ call'.offset < get_samples_lb(_buffer))
       => /\ call'.result # "ok"
          /\ call'.draws = 0
          /\ _buffer' = _buffer]_vars

\* C7: with buffered_lb <= offset < buffered_ub < offset + n the first
\* buffered_ub - offset samples of out are the cached samples of
\* [offset, buffered_ub), and exactly the remaining offset + n - buffered_ub
\* samples are newly produced, from absolute offset buffered_ub on, and
\* appended behind the cached ones.
C7_PartialOverlap ==
  [][(/\ IsPull(call')
      /\ get_samples_lb(_buffer) <= call'.offset
      /\ call'.offset < get_samples_ub(_buffer)
      /\ get_samples_ub(_buffer) < call'.offset + call'.samples)
       => LET o == call'.offset
              n == call'.samples
              bub == get_samples_ub(_buffer)
          IN /\ call'.result # "SystemError"
             /\ call'.nbuf = bub - o
             /\ \A i \in 1..(bub - o) : call'.out[i] = _buffer.data[o + i - 1]
             /\ call'.result = "ok"
                  => /\ call'.nzero + call'.ngen = o + n - bub
                     /\ call'.genAt = bub
                     /\ get_samples_ub(_buffer') = o + n
                     /\ \A j \in Max(o, get_samples_lb(_buffer'))..(o + n - 1) :
                           _buffer'.data[j] = call'.out[j - o + 1]]_vars

C7_Witness ==
  /\ IsPull(call)
  /\ call.path = "partial"
  /\ call.result = "ok"
  /\ call.nbuf > 0 /\ call.draws > 0


\* C4: after every get_samples(offset, n) that returns normally the buffer's
\* upper bound is at least offset + n and the buffered samples of
\* [offset, offset + n) equal the samples written to out; when the call
\* produced new samples the upper bound is exactly offset + n.
C4_BufferMatchesReturned ==
  [][(IsPull(call') /\ call'.result = "ok")
       => LET o == call'.offset
              n == call'.samples
          IN /\ get_samples_ub(_buffer') >= o + n
             /\ \A j \in Max(o, get_samples_lb(_buffer'))..(o + n - 1) :
                   _buffer'.data[j] = call'.out[j - o + 1]
             /\ (call'.nzero + call'.ngen > 0)
                  => get_samples_ub(_buffer') = o + n]_vars

\* C8: every newly produced sample at an absolute offset below the activation
\* offset is zero, whatever the active flag and the source, is in the ring
\* buffer after the call and is produced without drawing from the source;
\* the first sample drawn from the source after activate(offset) is placed
\* exactly at absolute offset max(offset, upper bound the buffer has when
\* activate returns), which is offset.
C8_SilentBeforeActivation ==
  [][(IsPull(call') /\ call'.result = "ok")
       => LET o == call'.offset
              n == call'.samples
          IN /\ \A i \in NewPositions(call') :
                   (o + i - 1 < _offset)
                     => /\ call'.out[i] = 0
                        /\ (o + i - 1 >= get_samples_lb(_buffer'))
                             => /\ o + i - 1 < get_samples_ub(_buffer')
                                /\ _buffer'.data[o + i - 1] = 0
             /\ (call'.draws > 0) => call'.drawAt >= _offset
             /\ (call'.draws > 0 /\ armed)
                  => call'.drawAt = _offset]_vars

C10_SilentAfterCompletion ==
  [][(/\ IsPull(call')
      /\ kind = "EpochOutput"
      /\ quiet
      /\ call'.result # "SystemError")
       => /\ call'.result = "ok"
          /\ call'.draws = 0
          /\ \A i \in NewPositions(call') : call'.out[i] = 0
          /\ quiet']_vars

C10_Witness ==
  /\ IsPull(call)
  /\ kind = "EpochOutput"
  /\ quiet
  /\ call.result = "ok"
  /\ call.ngen > 0
  /\ call.draws = 0
  /\ source # None

\* ------------------------------------------------ claims on the trial queue
RECURSIVE Expand(_)
\* The keys of the settings added, each as often as its repeat count, in the
\* order they were added.
Expand(loaded) ==
  IF loaded = <<>> THEN <<>>
  ELSE [i \in 1..Head(loaded).trials |-> Head(loaded).key] \o Expand(Tail(loaded))

\* The keys of the uploaded records, in order.
UploadedKeys == [i \in 1..Len(queue.uploaded) |-> queue.uploaded[i].key]

RECURSIVE Starts(_)
\* The keys of the trial instantiations in a stream of samples: one for each
\* first sample of a trial.
Starts(w) ==
  IF w = <<>> THEN <<>>
  ELSE (IF Head(w) > 0 /\ Head(w) % 10 = 1 THEN <<Head(w) \div 10>> ELSE <<>>)
       \o Starts(Tail(w))

IsPrefix(a, b) == Len(a) <= Len(b) /\ a = SubSeq(b, 1, Len(a))

\* C11: with auto-decrement the trial instantiations the queue has generated
\* are, in order, the settings in the order they were added, each repeated
\* consecutively as often as its repeat count; the uploaded records are the
\* same keys in the same order; a drained queue has instantiated every repeat
\* of every setting (r1 + ... + rk of them).
C11_FifoOrderWithRepeats ==
  auto_decrement =>
    /\ IsPrefix(UploadedKeys, Expand(qlog.loaded))
    /\ Starts(queue.tape) = UploadedKeys
    /\ (is_empty(queue) => UploadedKeys = Expand(qlog.loaded))

\* [(A, 2), (B, 1)] was drained as A, A, B.
C11_Witness ==
  /\ auto_decrement
  /\ is_empty(queue)
  /\ Len(qlog.loaded) = 2
  /\ UploadedKeys = <<1, 1, 2>>
  /\ Starts(queue.tape) = <<1, 1, 2>>

\* The t0 of the uploaded records grow strictly / never shrink.
Increasing(u) == \A i \in 1..(Len(u) - 1) : u[i].t0 < u[i + 1].t0

NonDecreasing(u) == \A i \in 1..(Len(u) - 1) : u[i].t0 <= u[i + 1].t0

RECURSIVE StartPos(_, _)
\* The positions (1-based, after the first k) of the first samples of trials
\* in a stream of samples.
StartPos(w, k) ==
  IF w = <<>> THEN <<>>
  ELSE (IF Head(w) > 0 /\ Head(w) % 10 = 1 THEN <<k + 1>> ELSE <<>>)
       \o StartPos(Tail(w), k + 1)

\* The samples a pull took from the queue: the last ngen of its out.
Drawn(c) == SubSeq(c.out, c.samples - c.ngen + 1, c.samples)

\* C13: a pull adds one uploaded record and one notification for each trial
\* whose first sample it draws from the queue, and no other; the record's t0
\* (in sample periods, t0 * fs) is the queue's t0, the activation offset,
\* plus the number of samples the queue had emitted before that first sample.
C13_OneRecordPerInstantiation ==
  [][IsPull(call') =>
       LET new == SubSeq(queue'.uploaded, Len(queue.uploaded) + 1,
                         Len(queue'.uploaded))
           at == StartPos(Drawn(call'), 0)
       IN /\ queue'.notified = queue'.uploaded
          /\ queue'.t0 = _offset'
          /\ Len(new) = Len(at)
          /\ \A k \in 1..Len(new) :
               /\ new[k].t0 = queue'.t0 + qlog.popped + at[k] - 1
               /\ new[k].key = Drawn(call')[at[k]] \div 10]_vars

\* Two settings of one repeat each: the second trial started when the queue
\* had emitted two seconds of samples, records and notifications at t0 0 and
\* 2 seconds.
C13_Witness ==
  /\ IsPull(call)
  /\ Len(qlog.loaded) = 2
  /\ \A i \in 1..2 : qlog.loaded[i].trials = 1
  /\ queue.t0 = 0
  /\ queue.uploaded = <<[t0 |-> 0, key |-> 1], [t0 |-> 2 * FS, key |-> 2]>>
  /\ queue.notified = queue.uploaded

\* The trial started at position at[k] of the tape is followed by its
\* duration's samples and then by zeros only up to the next trial's start,
\* which is d samples later; d compares with duration + gap as cmp says.
GapHolds(exact) ==
  LET at == StartPos(queue.tape, 0)
      u == queue.uploaded
  IN \A k \in 1..(Len(at) - 1) :
       LET e == qlog.loaded[u[k].key]
           a == at[k]
           b == at[k + 1]
       IN /\ \A j \in 1..e.duration : queue.tape[a + j - 1] = Sample(e.key, j)
          /\ \A j \in (a + e.duration)..(b - 1) : queue.tape[j] = 0
          /\ b - a >= e.duration + e.iti_duration
          /\ u[k + 1].t0 - u[k].t0 >= e.duration + e.iti_duration
          /\ exact => /\ b - a = e.duration + e.iti_duration
                      /\ u[k + 1].t0 - u[k].t0 = e.duration + e.iti_duration

Scheduled == Len(deferred) + fired

\* The queue went from holding an entry to empty in this step.
Drained == ~is_empty(queue) /\ is_empty(queue')

\* C15: a pull of an active output with a completion callback schedules the
\* callback once if the queue goes from non-empty to empty during it, and
\* not at all otherwise (entries remain, or the queue was empty already).
C15_OncePerDrain ==
  [][IsPull(call') /\ active /\ complete_cb =>
       Scheduled' = Scheduled + (IF Drained THEN 1 ELSE 0)]_vars

\* C15 as the code keeps it: the pull schedules the callback once if it asked
\* the queue for samples and the queue is empty afterwards, and leaves the
\* output inactive; otherwise not at all.  So the callback is scheduled
\* once for a drain and never while an entry remains, but also by the first
\* pull of an output activated on a queue that is empty already.
C15_OncePerActivation ==
  [][IsPull(call') /\ active /\ complete_cb =>
       /\ Scheduled' = Scheduled
                       + (IF call'.draws > 0 /\ is_empty(queue') THEN 1 ELSE 0)
       /\ (Drained => Scheduled' = Scheduled + 1)
       /\ (Scheduled' # Scheduled => ~active')
       /\ (~is_empty(queue') => Scheduled' = Scheduled /\ active')]_vars

\* A pull drained the queue and scheduled the callback, once.
C15_Witness ==
  /\ IsPull(call)
  /\ complete_cb
  /\ qlog.drains = 1
  /\ Len(queue.uploaded) >= 2
  /\ is_empty(queue)
  /\ Scheduled = 1
  /\ ~active

\* C16: a pull during which the queue becomes empty leaves the output
\* inactive, with or without a completion callback; a pull of the inactive
\* output asks the queue for nothing and returns zeros.
C16_DrainDeactivates ==
  [][IsPull(call') =>
       /\ (Drained => ~active')
       /\ (~active => /\ call'.draws = 0
                      /\ queue' = queue
                      /\ \A i \in NewPositions(call') : call'.out[i] = 0)]_vars

\* C17: a pull never runs the completion callback; it at most appends it to
\* the deferred calls, which the event loop runs later.
C17_CallbackDeferred ==
  [][IsPull(call') =>
       /\ fired' = fired
       /\ \/ deferred' = deferred
          \/ deferred' = Append(deferred, "complete_cb")]_vars

\* A pull has scheduled the callback and it has not run yet.
C17_Witness ==
  /\ IsPull(call)
  /\ is_empty(queue)
  /\ deferred = <<"complete_cb">>
  /\ fired = 0

\* ------------------------------------------------ claims on pause, resume
\* C18: when pause() has been called for the pause time of sample offset P,
\* the ring buffer holds nothing at or past P (its upper bound is at most
\* P), and until resume() every pull returns silence for the offsets at or
\* past P.
C18_PauseTakesEffect ==
  [][/\ (call'.op = "pause" => get_samples_ub(_buffer') <= call'.offset)
     /\ (IsPull(call') /\ paused =>
           \A i \in NewPositions(call') :
             call'.offset + i - 1 >= queue.pauseAt => call'.out[i] = 0)]_vars

\* What the hardware holds from the activation offset up to the buffer's
\* upper bound.
PlayedSeq ==
  [i \in 1..(get_samples_ub(_buffer) - _offset) |-> played[_offset + i - 1]]

RECURSIVE Match(_, _, _, _)
\* p is a beginning of the stream w with at most m blocks of zeros put in
\* (inblock: the last sample of p taken was one of a block).
Match(p, w, m, inblock) ==
  IF p = <<>> THEN TRUE
  ELSE \/ /\ w # <<>>
          /\ Head(p) = Head(w)
          /\ Match(Tail(p), Tail(w), m, FALSE)
       \/ /\ Head(p) = 0
          /\ inblock
          /\ Match(Tail(p), w, m, TRUE)
       \/ /\ Head(p) = 0
          /\ ~inblock
          /\ m > 0
          /\ Match(Tail(p), w, m - 1, TRUE)

\* C19: what the hardware holds is the stream of samples the queue
\* generated, each once and in order, with the silence of the pauses put in:
\* a pause/resume cycle loses no trial sample and plays none twice.
C19_ResumeExact ==
  active /\ qlog.acts = 1 /\ get_samples_ub(_buffer) >= _offset =>
    Match(PlayedSeq, queue.tape, qlog.pauses, FALSE)

\* C20: after pause() and resume() at the same engine time, with no pull in
\* between, the next pull returns what it would have returned had neither
\* been called (where that pull is one the buffer can serve or extend).
C20_PauseResumeIdentity ==
  [][call'.op = "resume" /\ call.op = "pause" =>
       \A n \in 1..MaxN :
         LET o == get_samples_ub(_buffer')
             with == get_samples(Chan', o, n)
             without == get_samples(shadow, o, n)
         IN without.path \in {"new", "cached", "partial"} =>
              with.out = without.out]_vars

\* C21: toggle_pause() calls resume() exactly when the paused flag is set
\* and pause() otherwise, and leaves what that method leaves; the flag after
\* the call is the negation of the flag before it, so the flags after
\* successive calls alternate and every second call restores the flag.
C21_ToggleAlternates ==
  [][call'.op = "toggle_pause" =>
       /\ call'.path = (IF paused THEN "resume" ELSE "pause")
       /\ Chan' = (IF paused THEN resume(Chan, ts) ELSE pause(Chan, ts))
       /\ paused' = ~paused
       /\ LET f == <<FALSE>> \o ret'.flags
          IN /\ f[Len(f)] = paused'
             /\ \A i \in 1..(Len(f) - 1) : f[i + 1] = ~f[i]
             /\ \A i \in 1..(Len(f) - 2) : f[i + 2] = f[i]]_vars

\* Three toggles: paused, resumed, paused again, with trial samples played
\* before.
C21_Witness ==
  /\ call.op = "toggle_pause"
  /\ ret.flags = <<TRUE, FALSE, TRUE>>
  /\ paused
  /\ qlog.pauses = 2
  /\ active
  /\ queue.tape # <<>>

\* Silence while paused: the samples a pull newly produces at or past the
\* pause offset are zeros.
SilentWhilePaused ==
  IsPull(call') /\ paused =>
    \A i \in NewPositions(call') :
      call'.offset + i - 1 >= queue.pauseAt => call'.out[i] = 0

C23_PullIsolated ==
  [][rt.pc = "app" /\ rt'.pc = "idle" =>
       LET alone == get_samples(rt.snap, rt.offset, rt.samples)
       IN /\ call'.out = alone.out
          /\ _buffer' = alone.ch.buffer]_vars

\* ------------------------------------------------ claims on the ring buffer
\* What append and invalidate_from do to the bounds: append of k samples
\* raises ub by k and lb only as far as ub - lb <= capacity needs;
\* invalidate_from(offset) sets ub to min(ub, offset) and leaves lb and the
\* samples below the new ub alone.
BufferSteps ==
  /\ call'.op = "append_data" =>
       /\ get_samples_ub(_buffer') = get_samples_ub(_buffer) + call'.samples
       /\ get_samples_lb(_buffer')
            = Max(get_samples_lb(_buffer), get_samples_ub(_buffer') - Cap)
  /\ call'.op = "invalidate_samples" =>
       /\ get_samples_ub(_buffer') = Min(get_samples_ub(_buffer), call'.offset)
       /\ get_samples_lb(_buffer') = get_samples_lb(_buffer)
       /\ \A i \in get_samples_lb(_buffer)..(get_samples_ub(_buffer') - 1) :
             _buffer'.data[i] = _buffer.data[i]

Received == SubSeq(obs'.received, Len(obs.received) + 1, Len(obs'.received))

Truncated(o) ==
  /\ get_samples_ub(_buffer') = Min(get_samples_ub(_buffer), o)
  /\ get_samples_lb(_buffer') = get_samples_lb(_buffer)
  /\ \A i \in get_samples_lb(_buffer)..(get_samples_ub(_buffer') - 1) :
        _buffer'.data[i] = _buffer.data[i]

\* C28: activate(offset) sets active, sets the activation offset to offset
\* and cuts the buffer's upper bound to min(ub, offset); for a queued output
\* it also sets the queue's t0 to the time of offset and leaves the rest of
\* the queue alone.  deactivate(offset) clears active and the source and
\* cuts the upper bound in the same way.  Neither moves the lower bound or
\* changes a buffered sample below offset.
C28_ActivateDeactivateFrame ==
  [][/\ call'.op = "activate" =>
          /\ active'
          /\ _offset' = call'.offset
          /\ Truncated(call'.offset)
          /\ source' = source
          /\ queue' = IF kind = "QueuedEpochOutput"
                      THEN [queue EXCEPT !.t0 = call'.offset]
                      ELSE queue
     /\ call'.op = "deactivate" =>
          /\ ~active'
          /\ source' = None
          /\ Truncated(call'.offset)
          /\ _offset' = _offset
          /\ queue' = queue]_vars

\* A queued output that had played past offset was activated again at
\* offset, below the buffer's upper bound.
C28_Witness ==
  /\ call.op = "activate"
  /\ kind = "QueuedEpochOutput"
  /\ call.offset > 0
  /\ queue.t0 = call.offset
  /\ get_samples_ub(_buffer) = call.offset
  /\ Len(queue.tape) > call.offset
  /\ active

\* ------------------------------------------------ claims on calibration
\* The frequencies a lookup asked for, as a sequence.
Asked == IF ret.iterable THEN ret.frequency ELSE <<ret.frequency>>

\* The values a successful lookup handed back, as a sequence.
Given == IF ret.iterable THEN ret.value ELSE <<ret.value>>

Calibrated(f) == \E i \in 1..Len(cal.frequency) : cal.frequency[i] = f

\* A point calibration fails exactly when a frequency asked for is not
\* calibrated, else hands back a stored sensitivity of each frequency minus
\* the fixed gain.
PointPolicy ==
  /\ ret.result = "CalibrationError" <=>
       \E k \in 1..Len(Asked) : ~Calibrated(Asked[k])
  /\ ret.result = "ok" =>
       \A k \in 1..Len(Asked) :
         \E i \in 1..Len(cal.frequency) :
           /\ cal.frequency[i] = Asked[k]
           /\ Given[k] = cal.sensitivity[i] - cal.fixed_gain

\* C29: a point calibration's get_sens fails with CalibrationError for every
\* frequency that is not calibrated and otherwise hands back the stored
\* sensitivity minus the fixed gain; an interpolated calibration's get_sens
\* never fails, whatever the frequency; no lookup changes the calibration.
C29_LookupPolicy ==
  [][ret'.op = "get_sens" =>
       /\ cal' = cal
       /\ cal.variant = "point" => PointPolicy'
       /\ cal.variant = "interp" => ret'.result = "ok"]_vars

\* A point calibration with two points was asked for a frequency between them
\* and failed (an interpolated one was asked for a frequency outside its
\* points and answered NaN).
C29_Witness ==
  /\ ret.op = "get_sens"
  /\ cal.variant = "point"
  /\ ~ret.iterable
  /\ Len(cal.frequency) = 2
  /\ cal.frequency[1] < ret.frequency
  /\ ret.frequency < cal.frequency[2]
  /\ ret.result = "CalibrationError"

\* ------------------------------------------ claims on the continuous output
\* The samples of the last pull that get_next_samples produced: the tail of
\* out after the cached samples and the zeros before the activation offset.
NewlyGenerated == SubSeq(call.out, call.samples - call.ngen + 1, call.samples)

\* C30: a pull never changes a ContinuousOutput's active flag; while active
\* every sample get_next_samples produced is the source's next one and the
\* source moved on by as many; while inactive every such sample is zero, the
\* source was not asked and is where it was.
C30_NeverDeactivatesItself ==
  [][(kind = "ContinuousOutput" /\ call'.op = "get_samples") =>
       /\ active' = active
       /\ (active /\ call'.ngen > 0) =>
            /\ NewlyGenerated' = source_next(source, call'.ngen)
            /\ source' = source_advance(source, call'.ngen)
            /\ call'.draws = call'.ngen
       /\ ~active =>
            /\ NewlyGenerated' = Zeros(call'.ngen)
            /\ call'.draws = 0
            /\ source' = source]_vars

\* An active continuous output with a source was pulled past the start of
\* the stream and the pull drew from the source.
C30_Witness ==
  /\ kind = "ContinuousOutput"
  /\ call.op = "get_samples"
  /\ call.result = "ok"
  /\ call.offset > 0
  /\ call.ngen > 0
  /\ call.draws = call.ngen
  /\ active

\* ----------------------------------------------- claims on auto_decrement
\* The samples pop_buffer generated in this step.
NewTape == SubSeq(queue'.tape, Len(queue.tape) + 1, Len(queue'.tape))

\* How many instantiations of the loaded setting x this step completed: a
\* trial is over with its last sample.
Completed(x) ==
  Cardinality({i \in 1..Len(NewTape) : NewTape[i] = Sample(x.key, x.duration)})

\* The repeat count entries holds for a key (0: the entry is not there).
TrialsLeft(entries, key) ==
  IF \E i \in 1..Len(entries) : entries[i].key = key
  THEN (CHOOSE e \in {entries[i] : i \in 1..Len(entries)} : e.key = key).trials
  ELSE 0

\* The keys of entries, in order.
Keys(entries) == [i \in 1..Len(entries) |-> entries[i].key]

\* C31: pop_buffer without auto_decrement leaves every entry and its repeat
\* count as they were, completed instantiations or not; with auto_decrement
\* each completed instantiation takes one off the count of its own entry, an
\* entry is in the queue after the call exactly when its count is still
\* positive, and the entries that stay keep their order.
C31_AutoDecrement ==
  [][call'.op = "pop_buffer" =>
       /\ ~auto_decrement => queue'.entries = queue.entries
       /\ auto_decrement =>
            /\ \A k \in 1..Len(qlog.loaded) :
                 LET x == qlog.loaded[k]
                 IN TrialsLeft(queue'.entries, x.key)
                      = TrialsLeft(queue.entries, x.key) - Completed(x)
            /\ \A i \in 1..Len(queue'.entries) : queue'.entries[i].trials > 0
            /\ IsPrefix(Keys(queue'.entries),
                        SubSeq(Keys(queue.entries),
                               Len(queue.entries) - Len(queue'.entries) + 1,
                               Len(queue.entries)))]_vars

\* With auto_decrement a pop_buffer call used up the first of two settings:
\* only the second is left.
C31_Witness ==
  /\ auto_decrement
  /\ call.op = "pop_buffer"
  /\ qlog.manual = 0
  /\ queue.nkeys = 2
  /\ Len(queue.entries) = 1
  /\ queue.entries[1].key = 2

\* ------------------------------------------------ claims on the source
\* C32: an active EpochOutput or ContinuousOutput has a source, whatever the
\* order of source assignments, activate, deactivate and pulls, so that no
\* pull fails for lack of a source.
C32_ActiveHasSource ==
  /\ active => source # None
  /\ call.result # "AttributeError"

\* ------------------------------------- claims on the pause critical section
\* C33: pause() and resume() run as one critical section while no pull is in
\* progress; the offset handed to engine.update_hw_ao is the offset the
\* buffer was invalidated from, and it is the sample offset of the pause or
\* resume time handed to the queue.
C33_PauseCriticalSection ==
  [][call'.op \in {"pause", "resume"} =>
       /\ rt.pc = "idle" /\ rt' = rt
       /\ _buffer' = invalidate_samples(_buffer, hw')
       /\ hw' = call'.offset
       /\ call'.op = "pause" => queue'.pauseAt = call'.offset
       /\ call'.op = "resume" => queue'.resumeAt = call'.offset]_vars

\* ------------------------------------------------ claims on notify
\* C34: notify(data) hands every connected callback, in the order they were
\* connected and once each, the same copy of data with t0 moved by the filter
\* delay, and the caller's data is as it was, so that a second notify of the
\* same data hands out the same t0 again.
C34_NotifyOnceEachInOrder ==
  [][call'.op = "notify" =>
       /\ ret'.data = ret.data
       /\ IsPrefix(obs.received, obs'.received)
       /\ Len(Received) = obs.callbacks
       /\ \A i \in 1..Len(Received) :
            Received[i] = [cb |-> i,
                           data |-> [ret.data EXCEPT !.t0 = @ + obs.filter_delay]]
       /\ obs'.callbacks = obs.callbacks
       /\ obs'.filter_delay = obs.filter_delay]_vars

\* Two callbacks and a filter delay: the same record was notified twice and
\* both times each callback got the same shifted t0.
C34_Witness ==
  /\ ret.op = "notify"
  /\ Len(ret.flags) = 2
  /\ obs.callbacks = 2
  /\ obs.filter_delay > 0
  /\ Len(obs.received) = 4
  /\ obs.received[3] = obs.received[1]
  /\ obs.received[4].cb = 2
  /\ obs.received[4].data.t0 = ret.data.t0 + obs.filter_delay

\* ------------------------------------------------ claims on find_engines
\* The places of the contributed engines flagged master_clock.
Flagged(p) == {i \in 1..Len(p) : p[i].master_clock}

\* find_engines has to fail on these contributions: a name twice, more than
\* one engine flagged, or none flagged and not exactly one engine.
MustFail(p) ==
  \/ \E i, j \in 1..Len(p) : i < j /\ p[i].name = p[j].name
  \/ Cardinality(Flagged(p)) > 1
  \/ Flagged(p) = {} /\ Len(p) # 1

\* C35: find_engines raises ValueError exactly when two engines share a
\* name, more than one is flagged master_clock, or none is flagged and the
\* engines are not exactly one; otherwise the master is the flagged engine,
\* or the only engine when none is flagged, and the mapping holds every
\* contributed engine under its name and nothing else.
C35_OneMasterOrFail ==
  [][ret'.op = "find_engines" =>
       LET p == io_point'
       IN /\ ret'.result = "ValueError" <=> MustFail(p)
          /\ ret'.result \in {"ok", "ValueError"}
          /\ ret'.result = "ok" =>
               /\ _master_engine' = IF Flagged(p) # {}
                                     THEN p[CHOOSE i \in Flagged(p) : TRUE]
                                     ELSE p[1]
               /\ DOMAIN _engines' = {p[i].name : i \in 1..Len(p)}
               /\ \A i \in 1..Len(p) : _engines'[p[i].name] = p[i]]_vars

\* Three engines with different names, the second one flagged: it is the
\* master and all three are in the mapping.
C35_Witness ==
  /\ ret.op = "find_engines"
  /\ ret.result = "ok"
  /\ Len(io_point) = 3
  /\ io_point[2].master_clock
  /\ _master_engine = io_point[2]
  /\ Cardinality(DOMAIN _engines) = 3

\* ------------------------------------------------ claims on state flags
\* What ran during this step.
NewRan == SubSeq(trace', Len(trace) + 1, Len(trace'))

\* The places in a record of what ran at which X_start or X_end of the
\* state x updated its flag.
Updates(ran, x) ==
  {i \in 1..Len(ran) : /\ ran[i].what = "event"
                       /\ ran[i].event.base = x
                       /\ ran[i].event.suffix \in {"_start", "_end"}}

SetMax(S) == CHOOSE i \in S : \A j \in S : j <= i

\* The flag of the state x after this step is what the last X_start or X_end
\* of the step made it, and what it was when there was none.
FlagFollows(x) ==
  LET u == Updates(NewRan, x)
      k == Key(x, "_active")
  IN /\ k \in DOMAIN _action_context'
     /\ _action_context'[k] = IF u = {} THEN _action_context[k]
                              ELSE NewRan[SetMax(u)].event.suffix = "_start"

\* No key of a plain event is set in the action context the plugin keeps.
EventKeysFalse ==
  \A k \in DOMAIN _action_context : k.suffix # "_active" => ~_action_context[k]

\* C36: X_active is true after X_start and false after X_end and changes at
\* no other time; the key of the event itself is set only in the copy of the
\* context an invocation matches against, so that in the context the plugin
\* keeps every event key is false before and after every invocation.
C36_FlagsFollowEvents ==
  [][/\ \A x \in StateNames : FlagFollows(x)
     /\ EventKeysFalse /\ EventKeysFalse']_vars

\* C36 as the code does it: the same, except that _refresh_actions, which
\* runs again whenever the extensions of the action point change, builds a
\* new context in which every flag is False, whatever state was active.
C36_FlagsFollowEventsOrRefresh ==
  [][/\ call'.op = "_refresh_actions" => _action_context' = NewContext
     /\ call'.op # "_refresh_actions" => \A x \in StateNames : FlagFollows(x)
     /\ EventKeysFalse /\ EventKeysFalse']_vars

\* trial_start was invoked after the last refresh and set trial_active, an
\* action bound to it ran, and the key trial_start is False in the context
\* the plugin keeps.
C36_Witness ==
  /\ call.op = "invoke_actions"
  /\ Len(trace) >= 2
  /\ trace[Len(trace) - 1] = Ran("event", Key("trial", "_start"), 0)
  /\ trace[Len(trace)].what = "action"
  /\ _action_context[Key("trial", "_active")]
  /\ ~_action_context[Key("trial", "_start")]

\* The places at which the event was triggered in a record of what ran.
Triggered(ran, event) ==
  {i \in 1..Len(ran) : ran[i] = Ran("event", event, 0)}

\* A call delayed to a later time runs nothing and hands its timer to the
\* event loop.
DelayedRunsNothing ==
  (call'.op = "invoke_actions" /\ call'.path = "delayed") =>
    /\ trace' = trace
    /\ timers' = timers
    /\ loop' # <<>>
    /\ LET c == loop'[Len(loop')]
       IN /\ c.fn = "start_timer" /\ c.name = ret'.event
          /\ c.delay = call'.offset - ts /\ c.timestamp = call'.offset

\* A call that is not delayed to a later time triggers its event during the
\* call, once, and starts no timer.
DueRunsAtOnce ==
  (call'.op = "invoke_actions" /\ call'.path = "now") =>
    /\ Cardinality(Triggered(NewRan, ret'.event)) = 1
    /\ \A i \in Len(loop) + 1..Len(loop') : loop'[i].fn # "start_timer"

\* A timer is single shot: only a pending timer changes, it fires or it is
\* stopped, and the step in which it fires triggers its event once; the
\* event loop and the clock run no action themselves.
SingleShot ==
  /\ \A i \in 1..Len(timers) :
       timers'[i].status # timers[i].status =>
         /\ timers[i].status = "pending"
         /\ timers'[i].status = "fired" =>
              /\ call'.op = "timeout" /\ call'.offset = i
              /\ Cardinality(Triggered(NewRan, timers[i].name)) = 1
         /\ timers'[i].status = "stopped" => trace' = trace
  /\ call'.op \in {"deferred_call", "clock"} => trace' = trace
  /\ call'.op = "timeout" => timers[call'.offset].status = "pending"

\* The event loop starts a timer of a call that asked to cancel the existing
\* one: no timer of that name is pending any more.
CancelledBeforeStart ==
  (loop # <<>> /\ loop' = Tail(loop) /\ Head(loop).fn = "start_timer"
     /\ Head(loop).cancel) =>
    \A i \in 1..Len(timers) :
      timers[i].name = Head(loop).name => timers[i].status # "pending"

\* C37: an event delayed to a later time runs no action during the call and
\* runs its actions once when its single-shot timer expires; with
\* cancel_existing a timer already pending for the event is stopped before
\* the new one is started, and a stopped timer never runs; an event that is
\* not delayed to a later time runs during the call.
C37_DelayedEvents ==
  [][/\ DelayedRunsNothing
     /\ DueRunsAtOnce
     /\ SingleShot
     /\ CancelledBeforeStart]_vars

\* request_resume() was the last request, request_pause() was made before it
\* and returned, and every deferred call has run.
ResumedAfterPause ==
  /\ ret.op = "request_resume"
  /\ \E i \in 1..Len(Requests) :
       Requests[i] = "request_pause" /\ ~ret.flags[i]
  /\ loop = <<>>

\* C38: a pause request does not outlive a resume request: once
\* request_resume() was called after request_pause() and the deferred calls
\* have run, _pause_requested is false and the experiment is running.
C38_ResumeClearsPause ==
  ResumedAfterPause => (~_pause_requested /\ experiment_state = "running")

\* The events a step triggered, in the order it triggered them.
RECURSIVE EventsOf(_)
EventsOf(ran) ==
  IF ran = <<>> THEN <<>>
  ELSE IF Head(ran).what = "event" THEN <<Head(ran).event>> \o EventsOf(Tail(ran))
  ELSE EventsOf(Tail(ran))

\* s without what is not in the set keep.
RECURSIVE Only(_, _)
Only(s, keep) ==
  IF s = <<>> THEN <<>>
  ELSE IF Head(s) \in keep THEN <<Head(s)>> \o Only(Tail(s), keep)
  ELSE Only(Tail(s), keep)

StartEvents ==
  << Key("experiment", "_initialize"), Key("experiment", "_prepare"),
     Key("experiment", "_start") >>

\* start_experiment() that returned has triggered experiment_initialize,
\* experiment_prepare and experiment_start, once each and in that order, and
\* only then handed the running state to the event loop; one that raised
\* has handed over nothing of the kind.
StartInOrder ==
  call'.op = "start_experiment" =>
    LET queued == {i \in Len(loop) + 1..Len(loop') : loop'[i].fn = "experiment_state"}
    IN IF ret'.result = "ok"
       THEN /\ Only(EventsOf(NewRan), {StartEvents[i] : i \in 1..3}) = StartEvents
            /\ queued = {Len(loop')}
            /\ loop'[Len(loop')] =
                 SetAttr("experiment_state", "running", "start_experiment")
       ELSE queued = {}

\* The experiment starts running only by a deferred call, and when it is
\* that of start_experiment() the three events were triggered before.
RunningAfterStart ==
  (experiment_state' = "running" /\ experiment_state # "running") =>
    /\ call'.op = "deferred_call"
    /\ Head(loop).origin = "start_experiment" =>
         \A k \in 1..3 : Triggered(trace, StartEvents[k]) # {}

\* C39: after stop_experiment() the experiment is stopped once the deferred
\* calls have run, even when an action of experiment_end raises; and
\* start_experiment() invokes experiment_initialize, experiment_prepare and
\* experiment_start in that order before the experiment is running.
C39_StopLeadsToStopped ==
  /\ (call.op = "stop_experiment") ~> (experiment_state = "stopped")
  /\ [][StartInOrder /\ RunningAfterStart]_vars

\* The first action of experiment_end raised in stop_experiment(), which was
\* the last call, and the experiment is stopped.
C39_Witness ==
  /\ ret.op = "stop_experiment"
  /\ _actions = FailingActions
  /\ trace # <<>>
  /\ trace[Len(trace)] = Ran("action", Key("experiment", "_end"), 1)
  /\ loop = <<>>
  /\ experiment_state = "stopped"
====
